---- MODULE Spec2Model ----
(***************************************************************************)
(* Model of the DocuMind vector service: the distance primitives, the      *)
(* brute-force index, the HNSW index and the HTTP dispatcher.              *)
(*                                                                         *)
(* Numbers.  The code computes float32 cosine similarities.  The model     *)
(* draws embeddings from a pool of integer vectors whose Euclidean norms   *)
(* are integers (1 or 5), so that every square root is exact and every     *)
(* similarity is a multiple of 1/ScoreUnit.  A score s of the code is the  *)
(* integer s * ScoreUnit in the model; float32 rounding of such a quotient *)
(* is monotone and keeps distinct quotients distinct, so every comparison  *)
(* of two scores or two distances has the outcome it has in the code.      *)
(***************************************************************************)
EXTENDS Integers, Sequences, FiniteSets, TLC

(***************************************************************************)
(* Bounds of the model.                                                    *)
(***************************************************************************)
Dimensions == 2      \* D given to NewHandler / the index constructors
MaxVectors == 3      \* vectors an index called directly is given
MaxBuild == 4        \* vectors the HNSW index is built from when only inserting
MaxRequests == 2     \* vectors the dispatcher is given
MaxTopK == 2         \* largest topK a search is called with
MaxWorkers == 3      \* largest numWorkers given to SearchConcurrent
MaxDrawnLevel == 1   \* largest level randomLevel is let to draw
MaxBatch == 2        \* longest batch given to InsertBatch

(***************************************************************************)
(* Generic helpers.                                                        *)
(***************************************************************************)
Range(s) == {s[i] : i \in 1..Len(s)}

Min2(a, b) == IF a < b THEN a ELSE b

SetMax(S) == CHOOSE x \in S : \A y \in S : y <= x

\* s with positions i and j (1-based) exchanged
SwapAt(s, i, j) == [s EXCEPT ![i] = s[j], ![j] = s[i]]

Front(s) == SubSeq(s, 1, Len(s) - 1)

Reverse(s) == [i \in 1..Len(s) |-> s[Len(s) + 1 - i]]

Zeros(n) == [i \in 1..n |-> 0]

\* a two-dimensional base vector padded with zeros to n components
Pad(v, n) == IF n >= Len(v) THEN v \o Zeros(n - Len(v)) ELSE SubSeq(v, 1, n)

(***************************************************************************)
(* Inputs.                                                                 *)
(***************************************************************************)
BaseEmbeddings == {<<1, 0>>, <<0, 1>>, <<4, 3>>, <<3, 4>>}

\* embeddings of the declared dimension
Embeddings == {Pad(v, Dimensions) : v \in BaseEmbeddings}

\* embeddings whose length is not the declared dimension
BadEmbeddings == {Pad(<<1, 0>>, Dimensions + 1), Pad(<<0, 1>>, Dimensions - 1)}

NoMetadata == [DocumentID |-> "", ChunkIndex |-> 0]

Meta(doc, chunk) == [DocumentID |-> doc, ChunkIndex |-> chunk]

Vec(id, e, m) == [ID |-> id, Embedding |-> e, Metadata |-> m]

\* the vectors a caller submits
VectorPool ==
    { Vec("a", Pad(<<1, 0>>, Dimensions), Meta("doc1", 0)),
      Vec("b", Pad(<<0, 1>>, Dimensions), Meta("doc1", 1)),
      Vec("c", Pad(<<4, 3>>, Dimensions), Meta("doc2", 0)),
      Vec("d", Pad(<<1, 0>>, Dimensions), Meta("doc2", 1)),
      Vec("a", Pad(<<3, 4>>, Dimensions), Meta("doc3", 0)),
      Vec("", Pad(<<0, 1>>, Dimensions), Meta("doc3", 1)),
      Vec("e", Pad(<<1, 0>>, Dimensions + 1), Meta("doc4", 0)),
      Vec("f", Pad(<<0, 1>>, Dimensions - 1), Meta("doc4", 1)) }

Ids == {v.ID : v \in VectorPool}

Queries == Embeddings

(***************************************************************************)
(* Distance primitives.                                                    *)
(***************************************************************************)
RECURSIVE SumTo(_, _)
SumTo(f, n) == IF n = 0 THEN 0 ELSE SumTo(f, n - 1) + f[n]

\* exact square root of a perfect square (norms of the pool are integers)
Isqrt(n) == CHOOSE r \in 0..n : r * r <= n /\ (r + 1) * (r + 1) > n

Norm(v) == Isqrt(SumTo([i \in 1..Len(v) |-> v[i] * v[i]], Len(v)))

\* one unit of the code's score scale: the code's 1.0 is ScoreUnit here
ScoreUnit == 25

CosineSimilarity(a, b) ==
    IF Len(a) # Len(b) \/ Len(a) = 0 THEN 0
    ELSE LET dotProduct == SumTo([i \in 1..Len(a) |-> a[i] * b[i]], Len(a))
             normA == SumTo([i \in 1..Len(a) |-> a[i] * a[i]], Len(a))
             normB == SumTo([i \in 1..Len(b) |-> b[i] * b[i]], Len(b))
         IN IF normA = 0 \/ normB = 0 THEN 0
            ELSE (ScoreUnit * dotProduct) \div (Isqrt(normA) * Isqrt(normB))

CosineDistance(a, b) == ScoreUnit - CosineSimilarity(a, b)

(***************************************************************************)
(* container/heap over the two heap types of the index package.  Heaps are *)
(* sequences; index arguments of Less, HeapUp and HeapDown are the code's  *)
(* 0-based positions.                                                      *)
(***************************************************************************)
\* resultHeap.Less: min-heap on Score
ResultLess(h, i, j) == h[i + 1].Score < h[j + 1].Score

\* distanceHeap.Less: the orientation is read from the element at the root
DistanceLess(h, i, j) ==
    IF Len(h) > 0 /\ h[1].isMaxHeap
    THEN h[i + 1].Distance > h[j + 1].Distance
    ELSE h[i + 1].Distance < h[j + 1].Distance

Less(kind, h, i, j) ==
    IF kind = "result" THEN ResultLess(h, i, j) ELSE DistanceLess(h, i, j)

\* heap.up(h, j): the parent (j - 1) / 2 in Go's truncating division
Parent(j) == IF j = 0 THEN 0 ELSE (j - 1) \div 2

\* heap.up(h, j)
RECURSIVE HeapUp(_, _, _)
HeapUp(kind, h, j) ==
    IF Parent(j) = j \/ ~Less(kind, h, j, Parent(j)) THEN h
    ELSE HeapUp(kind, SwapAt(h, Parent(j) + 1, j + 1), Parent(j))

\* heap.down(h, i, n): the child j of i that Less puts first
DownChild(kind, h, i, n) ==
    IF 2 * i + 2 < n /\ Less(kind, h, 2 * i + 2, 2 * i + 1)
    THEN 2 * i + 2 ELSE 2 * i + 1

\* heap.down(h, i, n)
RECURSIVE HeapDown(_, _, _, _)
RECURSIVE HeapDownTo(_, _, _, _, _)
HeapDownTo(kind, h, i, n, j) ==
    IF ~Less(kind, h, j, i) THEN h
    ELSE HeapDown(kind, SwapAt(h, i + 1, j + 1), j, n)

HeapDown(kind, h, i, n) ==
    IF 2 * i + 1 >= n THEN h
    ELSE HeapDownTo(kind, h, i, n, DownChild(kind, h, i, n))

\* heap.Push(h, x)
HeapPush(kind, h, x) == HeapUp(kind, Append(h, x), Len(h))

\* heap.Pop(h): the removed root and the heap that remains
Popped(s) == [item |-> s[Len(s)], heap |-> Front(s)]

HeapPop(kind, h) ==
    Popped(HeapDown(kind, SwapAt(h, 1, Len(h)), 0, Len(h) - 1))

\* the loop "for i := len-1; i >= 0; i-- { out[i] = heap.Pop(h) }"
RECURSIVE PopAllBackwards(_, _)
RECURSIVE PopAllAfter(_, _)
PopAllAfter(kind, p) == Append(PopAllBackwards(kind, p.heap), p.item)

PopAllBackwards(kind, h) ==
    IF Len(h) = 0 THEN <<>> ELSE PopAllAfter(kind, HeapPop(kind, h))

(***************************************************************************)
(* Brute-force index: the pure part of Search, searchChunk, mergeResults.  *)
(***************************************************************************)
SearchResult(id, score, m) == [ID |-> id, Score |-> score, Metadata |-> m]

\* Offer without the replacement branch: once full, the heap keeps what it has
OfferKeepFirst(h, r, topK) ==
    IF Len(h) < topK THEN HeapPush("result", h, r) ELSE h

\* the bounded top-k step shared by the three scans: keep r if the heap is
\* not full, else replace the root when r scores strictly higher
Offer(h, r, topK) ==
    IF Len(h) < topK THEN HeapPush("result", h, r)
    ELSE IF r.Score > h[1].Score
         THEN HeapPush("result", HeapPop("result", h).heap, r)
         ELSE h

\* the heap after the scan "for _, v := range vectors"
RECURSIVE ScanVectors(_, _, _, _)
ScanVectors(h, query, vs, topK) ==
    IF Len(vs) = 0 THEN h
    ELSE ScanVectors(
            Offer(h, SearchResult(vs[1].ID,
                                  CosineSimilarity(query, vs[1].Embedding),
                                  vs[1].Metadata), topK),
            query, Tail(vs), topK)

searchChunk(query, vs, topK) ==
    PopAllBackwards("result", ScanVectors(<<>>, query, vs, topK))

\* Search with no early return and a result slice of topK slots, the unused
\* ones left zero-valued
BFSearchPadded(vs, query, topK) ==
    searchChunk(query, vs, topK)
      \o [i \in 1..(topK - Min2(topK, Len(vs))) |-> SearchResult("", 0, NoMetadata)]

\* BruteForceIndex.Search on the vector list vs
BFSearch(vs, query, topK) ==
    IF Len(vs) = 0 THEN <<>> ELSE searchChunk(query, vs, topK)

\* mergeResults leaving the inner loop after the first result of a partial list
MergeHeadOnly(h, partial, topK) ==
    IF Len(partial) = 0 THEN h ELSE Offer(h, partial[1], topK)

\* mergeResults: one partial result taken from the channel and offered
RECURSIVE MergePartial(_, _, _)
MergePartial(h, partial, topK) ==
    IF Len(partial) = 0 THEN h
    ELSE MergePartial(Offer(h, partial[1], topK), Tail(partial), topK)

\* SearchConcurrent's chunk bounds (0-based, end exclusive) for worker i
EffectiveWorkers(numWorkers) == IF numWorkers <= 0 THEN 4 ELSE numWorkers

\* the chunk size rounded down instead of up
ChunkSizeFloor(n, numWorkers) == n \div EffectiveWorkers(numWorkers)

ChunkSize(n, numWorkers) ==
    (n + EffectiveWorkers(numWorkers) - 1) \div EffectiveWorkers(numWorkers)

ChunkStart(n, numWorkers, i) == i * ChunkSize(n, numWorkers)

\* the chunk end clamped one short of len(idx.vectors)
ChunkEndShort(n, numWorkers, i) ==
    Min2(ChunkStart(n, numWorkers, i) + ChunkSize(n, numWorkers), n - 1)

ChunkEnd(n, numWorkers, i) ==
    Min2(ChunkStart(n, numWorkers, i) + ChunkSize(n, numWorkers), n)

\* the workers that are launched: the loop breaks at the first start >= n
LaunchedWorkers(n, numWorkers) ==
    {i \in 0..(EffectiveWorkers(numWorkers) - 1) : ChunkStart(n, numWorkers, i) < n}

Chunk(vs, numWorkers, i) ==
    SubSeq(vs, ChunkStart(Len(vs), numWorkers, i) + 1,
               ChunkEnd(Len(vs), numWorkers, i))

(***************************************************************************)
(* HNSW index: the pure part.  nodes is the map idx.nodes, a function from *)
(* the ids present to their nodes; a node's Neighbors is a sequence whose  *)
(* element l + 1 is the code's Neighbors[l].                               *)
(***************************************************************************)
\* ML is in hundredths: 1 / ln(16) = 0.36...
DefaultHNSWConfig ==
    [M |-> 16, MMax |-> 32, EfConstruction |-> 200, EfSearch |-> 100, ML |-> 36]

\* a configuration small enough for pruning and eviction to happen on the
\* few nodes of the model
SmallHNSWConfig ==
    [M |-> 1, MMax |-> 2, EfConstruction |-> 2, EfSearch |-> 2, ML |-> 36]

TightHNSWConfig ==
    [M |-> 1, MMax |-> 1, EfConstruction |-> 1, EfSearch |-> 1, ML |-> 36]

Configs == {DefaultHNSWConfig, SmallHNSWConfig, TightHNSWConfig}

HNSWNode(v, level) ==
    [ID |-> v.ID, Vector |-> v.Embedding, Metadata |-> v.Metadata,
     Neighbors |-> [i \in 1..(level + 1) |-> <<>>], Layer |-> level]

HasNode(nodes, id) == id \in DOMAIN nodes

\* idx.nodes[id] = node
PutNode(nodes, id, node) ==
    [x \in (DOMAIN nodes) \cup {id} |-> IF x = id THEN node ELSE nodes[x]]

distanceNode(id, d, isMax) == [ID |-> id, Distance |-> d, isMaxHeap |-> isMax]

\* one pass of "for _, neighborID := range currentNode.Neighbors[l]": the
\* node the pass ends on, and whether it moved
RECURSIVE GreedyPass(_, _, _, _, _)
GreedyPass(nodes, query, cur, nbrs, changed) ==
    IF Len(nbrs) = 0 THEN [cur |-> cur, changed |-> changed]
    ELSE IF HasNode(nodes, nbrs[1])
            /\ CosineDistance(query, nodes[nbrs[1]].Vector)
                 < CosineDistance(query, nodes[cur].Vector)
         THEN GreedyPass(nodes, query, nbrs[1], Tail(nbrs), TRUE)
         ELSE GreedyPass(nodes, query, cur, Tail(nbrs), changed)

\* the loop "for changed { ... }" at layer l
RECURSIVE GreedyAtLayer(_, _, _, _)
RECURSIVE GreedyAgain(_, _, _, _)
GreedyAgain(nodes, query, r, l) ==
    IF r.changed THEN GreedyAtLayer(nodes, query, r.cur, l) ELSE r.cur

GreedyAtLayer(nodes, query, cur, l) ==
    IF l < Len(nodes[cur].Neighbors)
    THEN GreedyAgain(nodes, query,
            GreedyPass(nodes, query, cur, nodes[cur].Neighbors[l + 1], FALSE), l)
    ELSE cur

\* the loop "for l := from; l > stop; l--"
RECURSIVE GreedyDescent(_, _, _, _, _)
GreedyDescent(nodes, query, cur, l, stop) ==
    IF l > stop
    THEN GreedyDescent(nodes, query, GreedyAtLayer(nodes, query, cur, l), l - 1, stop)
    ELSE cur

\* searchLayer: a neighbor at distance dist is pushed on candidates and on
\* results (kept is results, or results with its root popped)
Admit(st, id, dist, kept) ==
    [st EXCEPT
        !.candidates = HeapPush("distance", @, distanceNode(id, dist, FALSE)),
        !.results = HeapPush("distance", kept, distanceNode(id, dist, TRUE))]

\* searchLayer admitting every unvisited neighbor, results never popped
ConsiderUnbounded(st, id, dist, ef) == Admit(st, id, dist, st.results)

\* searchLayer: an unvisited neighbor that resolves to a node
Consider(st, id, dist, ef) ==
    IF Len(st.results) < ef THEN Admit(st, id, dist, st.results)
    ELSE IF dist < st.results[1].Distance
         THEN Admit(st, id, dist, HeapPop("distance", st.results).heap)
         ELSE st

MarkVisited(st, id) == [st EXCEPT !.visited = @ \cup {id}]

\* the body of the neighbor loop without the visited map
VisitUnmarked(st, nodes, query, id, ef) ==
    IF ~HasNode(nodes, id) THEN st
    ELSE Consider(st, id, CosineDistance(query, nodes[id].Vector), ef)

\* searchLayer: the body of "for _, neighborID := range node.Neighbors[layer]"
Visit(st, nodes, query, id, ef) ==
    IF id \in st.visited THEN st
    ELSE IF ~HasNode(nodes, id) THEN MarkVisited(st, id)
    ELSE Consider(MarkVisited(st, id), id,
                  CosineDistance(query, nodes[id].Vector), ef)

RECURSIVE ExploreNeighbors(_, _, _, _, _)
ExploreNeighbors(st, nodes, query, nbrs, ef) ==
    IF Len(nbrs) = 0 THEN st
    ELSE ExploreNeighbors(Visit(st, nodes, query, nbrs[1], ef),
                          nodes, query, Tail(nbrs), ef)

\* searchLayer: the loop "for candidates.Len() > 0"; p is heap.Pop(candidates)
RECURSIVE BeamLoop(_, _, _, _, _)
RECURSIVE BeamStep(_, _, _, _, _, _)
RECURSIVE BeamPopped(_, _, _, _, _, _)
BeamStep(st, nodes, query, ef, layer, closest) ==
    IF Len(st.results) > 0 /\ closest.Distance > st.results[1].Distance
    THEN st
    ELSE IF ~HasNode(nodes, closest.ID) \/ layer >= Len(nodes[closest.ID].Neighbors)
    THEN BeamLoop(st, nodes, query, ef, layer)
    ELSE BeamLoop(ExploreNeighbors(st, nodes, query,
                                   nodes[closest.ID].Neighbors[layer + 1], ef),
                  nodes, query, ef, layer)

BeamPopped(st, nodes, query, ef, layer, p) ==
    BeamStep([st EXCEPT !.candidates = p.heap], nodes, query, ef, layer, p.item)

BeamLoop(st, nodes, query, ef, layer) ==
    IF Len(st.candidates) = 0 THEN st
    ELSE BeamPopped(st, nodes, query, ef, layer, HeapPop("distance", st.candidates))

\* the kept results as searchLayer hands them back: popped into the output
\* from its last position to its first, then exchanged end for end
ExtractOutput(results) == Reverse(PopAllBackwards("distance", results))

\* the heaps after the entry node has been pushed on both
SeedState(entryID, entryDist) ==
    [visited |-> {entryID},
     candidates |-> HeapPush("distance", <<>>, distanceNode(entryID, entryDist, FALSE)),
     results |-> HeapPush("distance", <<>>, distanceNode(entryID, entryDist, TRUE))]

searchLayer(nodes, query, entryID, ef, layer) ==
    IF ~HasNode(nodes, entryID) THEN <<>>
    ELSE ExtractOutput(
            BeamLoop(SeedState(entryID, CosineDistance(query, nodes[entryID].Vector)),
                     nodes, query, ef, layer).results)

selectNeighbors(query, candidates, m) ==
    IF Len(candidates) <= m THEN candidates ELSE SubSeq(candidates, 1, m)

\* the exchange sort of pruneConnections putting the furthest first
RECURSIVE SortInnerDescending(_, _, _)
SortInnerDescending(dists, i, j) ==
    IF j > Len(dists) THEN dists
    ELSE SortInnerDescending(
            IF dists[j].dist > dists[i].dist THEN SwapAt(dists, i, j) ELSE dists,
            i, j + 1)

\* pruneConnections: the exchange sort "for i ... for j := i+1 ..."
RECURSIVE SortInner(_, _, _)
SortInner(dists, i, j) ==
    IF j > Len(dists) THEN dists
    ELSE SortInner(IF dists[j].dist < dists[i].dist THEN SwapAt(dists, i, j) ELSE dists,
                   i, j + 1)

RECURSIVE SortOuter(_, _)
SortOuter(dists, i) ==
    IF i >= Len(dists) THEN dists
    ELSE SortOuter(SortInner(dists, i, i + 1), i + 1)

RECURSIVE NeighborDists(_, _, _)
NeighborDists(nodes, nodeVector, neighbors) ==
    IF Len(neighbors) = 0 THEN <<>>
    ELSE LET rest == NeighborDists(nodes, nodeVector, Tail(neighbors))
         IN IF HasNode(nodes, neighbors[1])
            THEN <<[id |-> neighbors[1],
                    dist |-> CosineDistance(nodeVector, nodes[neighbors[1]].Vector)]>>
                 \o rest
            ELSE rest

pruneConnections(nodes, nodeVector, neighbors, m) ==
    IF Len(neighbors) <= m THEN neighbors
    ELSE LET dists == SortOuter(NeighborDists(nodes, nodeVector, neighbors), 1)
         IN [i \in 1..Min2(m, Len(dists)) |-> dists[i].id]

\* neighbor.Neighbors[l] = append(neighbor.Neighbors[l], v.ID), pruned when
\* it has grown beyond mLayer
PruneIfOver(nodes, nid, l, mLayer) ==
    IF Len(nodes[nid].Neighbors[l + 1]) > mLayer
    THEN [nodes EXCEPT ![nid].Neighbors[l + 1] =
            pruneConnections(nodes, nodes[nid].Vector, @, mLayer)]
    ELSE nodes

AddReverse(nodes, id, nid, l, mLayer) ==
    IF HasNode(nodes, nid) /\ l < Len(nodes[nid].Neighbors)
    THEN PruneIfOver([nodes EXCEPT ![nid].Neighbors[l + 1] = Append(@, id)],
                     nid, l, mLayer)
    ELSE nodes

\* the new node appended to its own list instead of the selected neighbor
AddForwardSelf(nodes, id, nid, l) ==
    [nodes EXCEPT ![id].Neighbors[l + 1] = Append(@, id)]

\* node.Neighbors[l] = append(node.Neighbors[l], n.ID)
AddForward(nodes, id, nid, l) ==
    [nodes EXCEPT ![id].Neighbors[l + 1] = Append(@, nid)]

\* the loop "for _, n := range selectedNeighbors" of Insert at layer l
RECURSIVE ConnectNeighbors(_, _, _, _, _)
ConnectNeighbors(nodes, id, selected, l, mLayer) ==
    IF Len(selected) = 0 THEN nodes
    ELSE ConnectNeighbors(
            AddReverse(AddForward(nodes, id, selected[1].ID, l),
                       id, selected[1].ID, l, mLayer),
            id, Tail(selected), l, mLayer)

MLayer(cfg, l) == IF l = 0 THEN cfg.MMax ELSE cfg.M

\* the loop "for l := min(level, maxLevel); l >= 0; l--" of Insert;
\* WireLayer is its body once selectNeighbors has returned selected
RECURSIVE InsertLayers(_, _, _, _, _)
RECURSIVE WireLayer(_, _, _, _, _, _)
WireLayer(nodes, cfg, v, entryID, l, selected) ==
    IF Len(selected) > 0
    THEN InsertLayers(
            ConnectNeighbors([nodes EXCEPT ![v.ID].Neighbors[l + 1] = <<>>],
                             v.ID, selected, l, MLayer(cfg, l)),
            cfg, v, selected[1].ID, l - 1)
    ELSE InsertLayers(
            ConnectNeighbors([nodes EXCEPT ![v.ID].Neighbors[l + 1] = <<>>],
                             v.ID, selected, l, MLayer(cfg, l)),
            cfg, v, entryID, l - 1)

\* the layer loop searching the base layer whatever the layer being wired
InsertLayersBase(nodes, cfg, v, entryID, l) ==
    IF l < 0 THEN nodes
    ELSE WireLayer(nodes, cfg, v, entryID, l,
            selectNeighbors(v.Embedding,
                searchLayer(nodes, v.Embedding, entryID, cfg.EfConstruction, 0),
                MLayer(cfg, l)))

InsertLayers(nodes, cfg, v, entryID, l) ==
    IF l < 0 THEN nodes
    ELSE WireLayer(nodes, cfg, v, entryID, l,
            selectNeighbors(v.Embedding,
                searchLayer(nodes, v.Embedding, entryID, cfg.EfConstruction, l),
                MLayer(cfg, l)))

\* randomLevel on the values idx.rng.Float64() returns, in hundredths:
\* the level reached and the number of values read
LevelCap == 16

\* the loop of randomLevel without its test "level < 16"
RECURSIVE randomLevelUncapped(_, _, _)
randomLevelUncapped(ml, draws, level) ==
    IF Len(draws) > 0 /\ draws[1] < ml
    THEN randomLevelUncapped(ml, Tail(draws), level + 1)
    ELSE level

RECURSIVE randomLevelFrom(_, _, _)
randomLevelFrom(ml, draws, level) ==
    IF Len(draws) > 0 /\ draws[1] < ml /\ level < LevelCap
    THEN randomLevelFrom(ml, Tail(draws), level + 1)
    ELSE level

randomLevel(ml, draws) == randomLevelFrom(ml, draws, 0)

\* the values one call of randomLevel reads: idx.rng.Float64() is evaluated
\* before "level < 16", so the loop reads a value on every test and stops at
\* the first value that is not below mL, or at the test made at level LevelCap
ReadsExactly(ml, draws) ==
    /\ Len(draws) > 0
    /\ Len(draws) <= LevelCap + 1
    /\ \A i \in 1..(Len(draws) - 1) : draws[i] < ml
    /\ draws[Len(draws)] >= ml \/ Len(draws) = LevelCap + 1

\* the end of Insert raising maxLevel without moving the entry point
PromoteLevelOnly(g, wired, v, level) ==
    IF level > g.maxLevel
    THEN [nodes |-> wired, entryPoint |-> g.entryPoint, maxLevel |-> level]
    ELSE [nodes |-> wired, entryPoint |-> g.entryPoint, maxLevel |-> g.maxLevel]

\* the end of Insert: the new node becomes the entry point when its level
\* is above maxLevel
Promote(g, wired, v, level) ==
    IF level > g.maxLevel
    THEN [nodes |-> wired, entryPoint |-> v.ID, maxLevel |-> level]
    ELSE [nodes |-> wired, entryPoint |-> g.entryPoint, maxLevel |-> g.maxLevel]



\* Insert once the node is registered in idx.nodes
InsertRegistered(g, registered, cfg, v, level) ==
    IF g.entryPoint = ""
    THEN [nodes |-> registered, entryPoint |-> v.ID, maxLevel |-> level]
    ELSE Promote(g,
            InsertLayers(registered, cfg, v,
                GreedyDescent(registered, v.Embedding, g.entryPoint, g.maxLevel, level),
                Min2(level, g.maxLevel)),
            v, level)

\* HNSWIndex.Insert on the index g = [nodes, entryPoint, maxLevel]
HNSWInsert(g, cfg, v, level) ==
    InsertRegistered(g, PutNode(g.nodes, v.ID, HNSWNode(v, level)), cfg, v, level)

\* HNSWIndex.InsertBatch: Insert for each vector in turn


\* the loop of Search reporting the distance it ranked by as the score
RECURSIVE CollectDistances(_, _, _, _)
CollectDistances(nodes, query, candidates, topK) ==
    IF Len(candidates) = 0 \/ topK <= 0 THEN <<>>
    ELSE (IF HasNode(nodes, candidates[1].ID)
          THEN <<SearchResult(candidates[1].ID, candidates[1].Distance,
                    nodes[candidates[1].ID].Metadata)>>
          ELSE <<>>)
         \o CollectDistances(nodes, query, Tail(candidates), topK - 1)

\* the loop "for i := 0; i < len(candidates) && i < topK; i++" of Search
RECURSIVE CollectResults(_, _, _, _)
CollectResults(nodes, query, candidates, topK) ==
    IF Len(candidates) = 0 \/ topK <= 0 THEN <<>>
    ELSE (IF HasNode(nodes, candidates[1].ID)
          THEN <<SearchResult(candidates[1].ID,
                    CosineSimilarity(query, nodes[candidates[1].ID].Vector),
                    nodes[candidates[1].ID].Metadata)>>
          ELSE <<>>)
         \o CollectResults(nodes, query, Tail(candidates), topK - 1)

\* HNSWIndex.Search
HNSWSearch(g, cfg, query, topK) ==
    IF DOMAIN g.nodes = {} \/ g.entryPoint = "" THEN <<>>
    ELSE CollectResults(g.nodes, query,
            searchLayer(g.nodes, query,
                GreedyDescent(g.nodes, query, g.entryPoint, g.maxLevel, 0),
                cfg.EfSearch, 0),
            topK)

(***************************************************************************)
(* State.                                                                  *)
(***************************************************************************)
VARIABLES
    vectors,      \* BruteForceIndex.vectors
    nodes,        \* HNSWIndex.nodes
    entryPoint,   \* HNSWIndex.entryPoint ("" when none)
    maxLevel,     \* HNSWIndex.maxLevel
    config,       \* HNSWIndex.config
    rngDraws,     \* number of values taken from HNSWIndex.rng so far
    insertLog,    \* history: the ids given to HNSWIndex.Insert, in call order
    sc,           \* the SearchConcurrent call in progress, if any
    response,     \* what the last call returned, until the caller takes it
    mu,           \* BruteForceIndex.mu and HNSWIndex.mu
    tasks,        \* the calls of the other goroutines, one per caller
    twin,         \* a second HNSWIndex, created with the same configuration
    seedStream,   \* the values rand.New(rand.NewSource(42)) returns, in order
    walk,         \* the HNSW Insert or Search call in progress, loop by loop
    ui            \* the frontend page: its flags, its requests, its timers

vars == <<vectors, nodes, entryPoint, maxLevel, config, rngDraws, insertLog, sc,
          response, mu, tasks, twin, seedStream, walk, ui>>

bfState == <<vectors>>

hnswState == <<nodes, entryPoint, maxLevel, config, rngDraws, insertLog>>

Graph == [nodes |-> nodes, entryPoint |-> entryPoint, maxLevel |-> maxLevel]

\* the index takes the value g
SetGraph(g) ==
    /\ nodes' = g.nodes
    /\ entryPoint' = g.entryPoint
    /\ maxLevel' = g.maxLevel

NoNodes == [id \in {} |-> id]

\* what a call returned: op names the call, request its arguments
Reply(op, ok, request, results, count) ==
    [op |-> op, ok |-> ok, request |-> request, results |-> results,
     count |-> count]

NoResponse == Reply("none", TRUE, <<>>, <<>>, 0)

SearchArgs(query, topK, algorithm, numWorkers) ==
    [Embedding |-> query, TopK |-> topK, Algorithm |-> algorithm,
     NumWorkers |-> numWorkers]

NoSearch ==
    [active |-> FALSE, via |-> "", request |-> <<>>, query |-> <<>>, topK |-> 0,
     numWorkers |-> 0, launched |-> {}, pending |-> {}, resultsChan |-> <<>>,
     merged |-> <<>>, h |-> <<>>]

Idle == response.op = "none" /\ ~sc.active

(***************************************************************************)
(* sync.RWMutex as the indexes use it.  writer is the caller that is in    *)
(* Lock() or holds the lock ("" when none), granted tells whether its      *)
(* Lock() has returned, readers counts the holders of RLock.               *)
(***************************************************************************)
FreeMutex == [writer |-> "", granted |-> FALSE, readers |-> 0]

\* RLock() letting the reader in whatever the writer does
CanRLockAlways(m) == TRUE

\* RLock() returns at once unless a writer holds or awaits the lock
CanRLock(m) == m.writer = ""

RLock(m) == [m EXCEPT !.readers = @ + 1]

RUnlock(m) == [m EXCEPT !.readers = @ - 1]

\* Lock() excludes the other writers first ...
CanAnnounce(m) == m.writer = ""

Announce(m, c) == [m EXCEPT !.writer = c]

\* Lock() returning while readers still hold the lock
CanLockOverReaders(m, c) == m.writer = c /\ ~m.granted

\* ... and returns once the readers that hold the lock have left
CanLock(m, c) == m.writer = c /\ ~m.granted /\ m.readers = 0

Lock(m) == [m EXCEPT !.granted = TRUE]

Unlock(m) == [m EXCEPT !.writer = "", !.granted = FALSE]

\* the goroutines that call the indexes beside the caller of response
Writers == {"w1", "w2"}

Readers == {"r1", "r2"}

Callers == Writers \cup Readers

\* a call in progress: queue holds the vectors still to insert, request the
\* arguments of a search, level the level drawn for the vector being
\* inserted, base the number of vectors stored when the call asked for its
\* first lock (for a reader: the number it found), n the length of the
\* batch, results and count what the call returns
Task(op, pc, queue, request, base) ==
    [op |-> op, pc |-> pc, queue |-> queue, request |-> request, level |-> 0,
     base |-> base, n |-> Len(queue), results |-> <<>>, count |-> 0]

NoTask == Task("none", "idle", <<>>, <<>>, 0)

\* the values idx.rng.Float64() can return, in hundredths: one below and one
\* above mL.  The generator is seeded (rand.NewSource(42)); its stream is not
\* computed here, every stream over these values is allowed.
DrawValues == {10, 90}

RECURSIVE SeqsUpTo(_, _)
SeqsUpTo(S, n) ==
    IF n = 0 THEN {<<>>}
    ELSE LET shorter == SeqsUpTo(S, n - 1)
         IN shorter \cup {Append(q, x) : q \in shorter, x \in S}

\* the runs of values one randomLevel call can read under mL = ml
DrawRuns(ml) ==
    {ds \in SeqsUpTo(DrawValues, MaxDrawnLevel + 1) : ReadsExactly(ml, ds)}

\* NewHNSWIndex for the second index; queue holds the vectors the first index
\* was given and the second is still to be given
NoTwin ==
    [nodes |-> NoNodes, entryPoint |-> "", maxLevel |-> -1, rngDraws |-> 0,
     queue |-> <<>>]

\* searchLayer's visited map and its two heaps, before anything is pushed
NoBeam == [visited |-> {}, candidates |-> <<>>, results |-> <<>>]

\* history of one searchLayer call: how many times each id was pushed on
\* candidates, and how many times its neighbor list was gone through
NoCounts == [id \in Ids |-> 0]

\* no Insert or Search call is being followed.  cur is currentNode / entryID,
\* l the layer of the greedy descent and stop the layer above which it runs,
\* layer and ef the arguments of the searchLayer call, st its locals; steps
\* is history: the loop iterations the call has made so far
NoWalk ==
    [active |-> FALSE, op |-> "none", v |-> Vec("", <<>>, NoMetadata), level |-> 0,
     topK |-> 0, query |-> <<>>, phase |-> "idle", cur |-> "", l |-> 0, stop |-> 0,
     ef |-> 0, layer |-> 0, st |-> NoBeam, pushes |-> NoCounts,
     expanded |-> NoCounts, steps |-> 0]

MaxCalls == 3        \* calls of sendQuery followed
MaxUploads == 2      \* files handed to handleFile

\* "const maxAttempts = 60"
MaxAttempts == 60

\* one call of handleFile: phase is how far handleFile / uploadFile /
\* pollTaskStatus has come, outcome how it ended, attempts the local
\* variable of pollTaskStatus; requests counts the status requests of the
\* call, resets its calls of resetUpload, added its calls of addDocument,
\* timer is the pending setTimeout of the 'completed' branch
NoUpload ==
    [phase |-> "none", outcome |-> "none", attempts |-> 0, requests |-> 0,
     resets |-> 0, added |-> 0, timer |-> FALSE]

\* the page once the script has run, before DOMContentLoaded.  queries
\* holds, for every call of sendQuery, how far it has come; up the calls of
\* handleFile; health how far checkHealth has come
NoUI ==
    [isProcessing |-> FALSE, calls |-> 0,
     queries |-> [s \in 1..MaxCalls |-> "none"],
     uploads |-> 0, up |-> [s \in 1..MaxUploads |-> NoUpload],
     documents |-> 0, alerts |-> 0, chatEnabled |-> FALSE, health |-> "none"]

InitCommon ==
    /\ vectors = <<>>
    /\ nodes = NoNodes
    /\ entryPoint = ""
    /\ maxLevel = -1
    /\ rngDraws = 0
    /\ insertLog = <<>>
    /\ sc = NoSearch
    /\ response = NoResponse
    /\ mu = [bf |-> FreeMutex, hnsw |-> FreeMutex]
    /\ tasks = [c \in Callers |-> NoTask]
    /\ twin = NoTwin
    /\ walk = NoWalk
    /\ ui = NoUI

\* the caller takes the response; the next call can be made
Return ==
    /\ response.op # "none"
    /\ response' = NoResponse
    /\ UNCHANGED <<vectors, nodes, entryPoint, maxLevel, config, rngDraws, insertLog, sc, mu, tasks, twin, seedStream, walk, ui>>

(***************************************************************************)
(* SearchConcurrent, step by step: the call holds the reader lock from     *)
(* SCStart to SCFinish; each launched worker scans its chunk and sends its *)
(* partial result; mergeResults takes the partial results in the order in  *)
(* which they were sent.                                                   *)
(***************************************************************************)
SCBegin(via, request, query, topK, numWorkers) ==
    /\ CanRLock(mu.bf)
    /\ IF Len(vectors) = 0
       THEN /\ response' = Reply(via, TRUE, request, <<>>, 0)
            /\ UNCHANGED <<sc, mu>>
       ELSE /\ mu' = [mu EXCEPT !.bf = RLock(@)]
            /\ sc' = [active |-> TRUE, via |-> via, request |-> request,
                      query |-> query, topK |-> topK, numWorkers |-> numWorkers,
                      launched |-> LaunchedWorkers(Len(vectors), numWorkers),
                      pending |-> LaunchedWorkers(Len(vectors), numWorkers),
                      resultsChan |-> <<>>, merged |-> <<>>, h |-> <<>>]
            /\ UNCHANGED response

\* what worker i sends on resultsChan
Partial(i, results) == [worker |-> i, results |-> results]

\* resultsChan made without a buffer
ChanUnbuffered(numWorkers) == 0

\* "resultsChan := make(chan []types.SearchResult, numWorkers)", numWorkers
\* having been defaulted: the partial results the channel holds before a
\* send blocks
ChanCapacity(numWorkers) == EffectiveWorkers(numWorkers)

\* "resultsChan <- results" does not block: the buffer has room
CanSend(call) == Len(call.resultsChan) < ChanCapacity(call.numWorkers)

\* worker i: searchChunk on its chunk, "resultsChan <- results", wg.Done()
SCWorker(i) ==
    /\ sc.active
    /\ i \in sc.pending
    /\ CanSend(sc)
    /\ sc' = [sc EXCEPT
                !.pending = @ \ {i},
                !.resultsChan = Append(@, Partial(i, searchChunk(sc.query,
                                    Chunk(vectors, sc.numWorkers, i), sc.topK)))]
    /\ UNCHANGED <<vectors, nodes, entryPoint, maxLevel, config, rngDraws, insertLog, response, mu, tasks, twin, seedStream, walk, ui>>

\* mergeResults: one iteration of "for partialResults := range resultsChan"
SCMerge ==
    /\ sc.active
    /\ Len(sc.resultsChan) > 0
    /\ sc' = [sc EXCEPT
                !.resultsChan = Tail(@),
                !.merged = Append(@, Head(sc.resultsChan).worker),
                !.h = MergePartial(@, Head(sc.resultsChan).results, sc.topK)]
    /\ UNCHANGED <<vectors, nodes, entryPoint, maxLevel, config, rngDraws, insertLog, response, mu, tasks, twin, seedStream, walk, ui>>

\* "for partialResults := range resultsChan" ending as soon as the channel is
\* found empty, closed or not
RangeEndsWhenEmpty(call) == Len(call.resultsChan) = 0

\* "for partialResults := range resultsChan" ends: the channel is closed
\* (wg.Wait() returned, every worker has called wg.Done()) and drained
RangeEnds(call) == call.pending = {} /\ Len(call.resultsChan) = 0

\* mergeResults leaves its loop, extracts the heap, SearchConcurrent returns
SCFinish ==
    /\ sc.active
    /\ RangeEnds(sc)
    /\ response' = Reply(sc.via, TRUE, sc.request, PopAllBackwards("result", sc.h), 0)
    /\ sc' = NoSearch
    /\ mu' = [mu EXCEPT !.bf = RUnlock(@)]
    /\ UNCHANGED <<vectors, nodes, entryPoint, maxLevel, config, rngDraws, insertLog, tasks, twin, seedStream, walk, ui>>

(***************************************************************************)
(* The dispatcher (api.Handler).                                           *)
(***************************************************************************)
Algorithms == {"", "hnsw", "bruteforce", "bruteforce_concurrent", "annoy"}

\* the validation loop of HandleInsertBatch looking at the first vector only
BadDimensionsFirst(vs) == Len(vs) > 0 /\ Len(vs[1].Embedding) # Dimensions

\* "for _, v := range req.Vectors { if len(v.Embedding) != h.dimensions"
BadDimensions(vs) == \E i \in 1..Len(vs) : Len(vs[i].Embedding) # Dimensions

\* the dimension test of HandleInsert rejecting only what is too long
TooLong(req) == Len(req.Embedding) > Dimensions

\* "if len(req.Embedding) != h.dimensions" of HandleInsert
BadEmbedding(req) == Len(req.Embedding) # Dimensions

\* the vectors the calls in progress are still to insert
RECURSIVE StillToInsert(_)
StillToInsert(callers) ==
    IF callers = {} THEN 0
    ELSE LET c == CHOOSE x \in callers : TRUE
         IN Len(tasks[c].queue) + StillToInsert(callers \ {c})

\* "idx.vectors = append(idx.vectors, vectors...)" storing the first only
AppendFirst(vs, more) == IF Len(more) = 0 THEN vs ELSE Append(vs, more[1])

\* "idx.vectors = append(idx.vectors, vectors...)" storing nothing
AppendNone(vs, more) == vs

\* "idx.vectors = append(idx.vectors, vectors...)"
AppendAll(vs, more) == vs \o more

\* Lock() returns at once for caller c: no writer holds or awaits the lock
\* and no reader holds it
LockFree(m, c) == CanAnnounce(m) /\ CanLock(Announce(m, c), c)

\* HandleInsert, from the decoding of the request to the return of
\* "h.bruteForce.Insert(v)": a request with an embedding of the wrong length
\* is answered with nothing inserted; otherwise the vector is stored in the
\* brute-force index under that index's lock, and the handler goes on to
\* "h.hnsw.Insert(v)" in a step of its own
HandleInsert(c, req, limit) ==
    /\ tasks[c].pc = "idle"
    /\ Len(vectors) < limit
    /\ IF BadEmbedding(req)
       THEN /\ Idle
            /\ response' = Reply("insert", FALSE, req, <<>>, 0)
            /\ UNCHANGED <<vectors, tasks>>
       ELSE /\ LockFree(mu.bf, c)
            /\ vectors' = Append(vectors, req)
            /\ tasks' = [tasks EXCEPT ![c] = Task("HandleInsert", "next", <<req>>, req, 0)]
            /\ UNCHANGED response
    /\ UNCHANGED <<nodes, entryPoint, maxLevel, config, rngDraws, insertLog, sc, mu, twin, seedStream, walk, ui>>

\* HandleInsertBatch, from the decoding of the request to the return of
\* "h.bruteForce.InsertBatch(req.Vectors)", which stores the whole batch
\* under one lock; "h.hnsw.InsertBatch(req.Vectors)" follows, one Insert per
\* step
HandleInsertBatch(c, reqs, limit) ==
    /\ tasks[c].pc = "idle"
    /\ Len(vectors) + Len(reqs) <= limit
    /\ IF BadDimensions(reqs)
       THEN /\ Idle
            /\ response' = Reply("insert_batch", FALSE, reqs, <<>>, 0)
            /\ UNCHANGED <<vectors, tasks>>
       ELSE /\ LockFree(mu.bf, c)
            /\ vectors' = AppendAll(vectors, reqs)
            /\ tasks' = [tasks EXCEPT
                    ![c] = Task("HandleInsertBatch",
                                IF Len(reqs) = 0 THEN "returned" ELSE "next",
                                reqs, reqs, 0)]
            /\ UNCHANGED response
    /\ UNCHANGED <<nodes, entryPoint, maxLevel, config, rngDraws, insertLog, sc, mu, twin, seedStream, walk, ui>>

\* HNSWIndex.Insert from "idx.mu.Lock()" to the deferred unlock, called by
\* HandleInsert for its vector or by HNSWIndex.InsertBatch for its next
\* vector ("for _, v := range vectors { idx.Insert(v) }"); between two of
\* these steps the lock is free
HNSWInsertNext(c, draws) ==
    /\ tasks[c].pc = "next"
    /\ LockFree(mu.hnsw, c)
    /\ SetGraph(HNSWInsert(Graph, config, Head(tasks[c].queue),
                           randomLevel(config.ML, draws)))
    /\ rngDraws' = rngDraws + Len(draws)
    /\ insertLog' = Append(insertLog, Head(tasks[c].queue).ID)
    /\ tasks' = [tasks EXCEPT
            ![c].queue = Tail(@),
            ![c].pc = IF Len(tasks[c].queue) > 1 THEN "next" ELSE "returned"]
    /\ UNCHANGED <<vectors, config, sc, response, mu, twin, seedStream, walk, ui>>

\* the handler writes its response: {"status": "ok"}, with the count for a
\* batch
HandleInsertReply(c) ==
    /\ tasks[c].pc = "returned"
    /\ tasks[c].op \in {"HandleInsert", "HandleInsertBatch"}
    /\ Idle
    /\ response' = IF tasks[c].op = "HandleInsert"
                   THEN Reply("insert", TRUE, tasks[c].request, <<>>, 0)
                   ELSE Reply("insert_batch", TRUE, tasks[c].request, <<>>, tasks[c].n)
    /\ tasks' = [tasks EXCEPT ![c] = NoTask]
    /\ UNCHANGED <<vectors, nodes, entryPoint, maxLevel, config, rngDraws, insertLog, sc, mu, twin, seedStream, walk, ui>>

\* a search handler that knows HNSW only and whose Search takes a value from
\* the index's random generator
HandleSearchDrawing(query, topK, algorithm) ==
    /\ Idle
    /\ Len(query) = Dimensions
    /\ algorithm \in {"", "hnsw"}
    /\ response' = Reply("search", TRUE, SearchArgs(query, topK, algorithm, 4),
                         HNSWSearch(Graph, config, query,
                                    IF topK <= 0 THEN 10 ELSE topK), 0)
    /\ rngDraws' = rngDraws + 1
    /\ UNCHANGED <<vectors, nodes, entryPoint, maxLevel, config, insertLog, sc, mu, tasks, twin, seedStream, walk, ui>>

\* the default of req.TopK taken to be 1
TopKOrOne(topK) == IF topK <= 0 THEN 1 ELSE topK

\* "if req.TopK <= 0 { req.TopK = 10 }"
DefaultTopK(topK) == IF topK <= 0 THEN 10 ELSE topK

\* every algorithm the switch has no case for taken to be "hnsw"
AlgorithmOrHNSW(algorithm) ==
    IF algorithm \in {"bruteforce", "bruteforce_concurrent"} THEN algorithm ELSE "hnsw"

\* "if req.Algorithm == "" { req.Algorithm = "hnsw" }"
DefaultAlgorithm(algorithm) == IF algorithm = "" THEN "hnsw" ELSE algorithm

HandleSearch(query, topK, algorithm) ==
    LET req == SearchArgs(query, topK, algorithm, 4)
        k == DefaultTopK(topK)
        algo == DefaultAlgorithm(algorithm)
    IN /\ Idle
       /\ IF Len(query) # Dimensions
          THEN response' = Reply("search", FALSE, req, <<>>, 0) /\ UNCHANGED <<sc, mu>>
          ELSE IF algo = "bruteforce"
          THEN response' = Reply("search", TRUE, req, BFSearch(vectors, query, k), 0)
               /\ UNCHANGED <<sc, mu>>
          ELSE IF algo = "bruteforce_concurrent"
          THEN SCBegin("search", req, query, k, 4)
          ELSE IF algo = "hnsw"
          THEN response' = Reply("search", TRUE, req,
                                 HNSWSearch(Graph, config, query, k), 0)
               /\ UNCHANGED <<sc, mu>>
          ELSE response' = Reply("search", FALSE, req, <<>>, 0) /\ UNCHANGED <<sc, mu>>
       /\ UNCHANGED <<vectors, nodes, entryPoint, maxLevel, config, rngDraws, insertLog, tasks, twin, seedStream, walk, ui>>

HandleStats ==
    /\ Idle
    /\ response' = Reply("stats", TRUE, <<>>, <<>>, Len(vectors))
    /\ UNCHANGED <<vectors, nodes, entryPoint, maxLevel, config, rngDraws, insertLog, sc, mu, tasks, twin, seedStream, walk, ui>>

Init == InitCommon /\ config = DefaultHNSWConfig /\ seedStream = <<>>

\* the queries the model searches with
SearchQueries ==
    {Pad(<<1, 0>>, Dimensions), Pad(<<4, 3>>, Dimensions), Pad(<<1, 0>>, Dimensions + 1)}

Batches == SeqsUpTo(VectorPool, MaxBatch)

\* the vectors an index called directly is given: those the dispatcher
\* lets through
IndexPool == {v \in VectorPool : Len(v.Embedding) = Dimensions}

IndexBatches == SeqsUpTo(IndexPool, MaxBatch)

\* the goroutine of the call that is taken step by step where the other
\* calls are taken whole; SpecDispatch and SpecSharedHNSW have two
OneWriter == {"w1"}

Next ==
    \/ \E c \in OneWriter, req \in VectorPool : HandleInsert(c, req, MaxRequests)
    \/ \E c \in OneWriter, reqs \in Batches : HandleInsertBatch(c, reqs, MaxRequests)
    \/ \E c \in OneWriter, draws \in DrawRuns(config.ML) : HNSWInsertNext(c, draws)
    \/ \E c \in OneWriter : HandleInsertReply(c)
    \/ \E q \in SearchQueries, k \in 0..MaxTopK, a \in Algorithms : HandleSearch(q, k, a)
    \/ HandleStats
    \/ \E i \in 0..3 : SCWorker(i)
    \/ SCMerge
    \/ SCFinish
    \/ Return

Spec == Init /\ [][Next]_vars

(***************************************************************************)
(* The brute-force index called directly.                                  *)
(***************************************************************************)
BFInsert(v) ==
    /\ Idle
    /\ Len(vectors) < MaxVectors
    /\ vectors' = Append(vectors, v)
    /\ response' = Reply("bf_insert", TRUE, v, <<>>, 0)
    /\ UNCHANGED <<nodes, entryPoint, maxLevel, config, rngDraws, insertLog, sc, mu, tasks, twin, seedStream, walk, ui>>

BFInsertBatch(vs) ==
    /\ Idle
    /\ Len(vectors) + Len(vs) <= MaxVectors
    /\ vectors' = vectors \o vs
    /\ response' = Reply("bf_insert_batch", TRUE, vs, <<>>, Len(vs))
    /\ UNCHANGED <<nodes, entryPoint, maxLevel, config, rngDraws, insertLog, sc, mu, tasks, twin, seedStream, walk, ui>>

BFSearchCall(query, topK) ==
    /\ Idle
    /\ response' = Reply("bf_search", TRUE, SearchArgs(query, topK, "bruteforce", 0),
                         BFSearch(vectors, query, topK), 0)
    /\ UNCHANGED <<vectors, nodes, entryPoint, maxLevel, config, rngDraws, insertLog, sc, mu, tasks, twin, seedStream, walk, ui>>

BFSearchConcurrent(query, topK, numWorkers) ==
    /\ Idle
    /\ SCBegin("bf_search_concurrent",
               SearchArgs(query, topK, "bruteforce_concurrent", numWorkers),
               query, topK, numWorkers)
    /\ UNCHANGED <<vectors, nodes, entryPoint, maxLevel, config, rngDraws, insertLog, tasks, twin, seedStream, walk, ui>>

BFCount ==
    /\ Idle
    /\ response' = Reply("bf_count", TRUE, <<>>, <<>>, Len(vectors))
    /\ UNCHANGED <<vectors, nodes, entryPoint, maxLevel, config, rngDraws, insertLog, sc, mu, tasks, twin, seedStream, walk, ui>>

InitBF == Init

NextBF ==
    \/ \E v \in IndexPool : BFInsert(v)
    \/ \E vs \in IndexBatches : BFInsertBatch(vs)
    \/ \E q \in Queries, k \in 1..MaxTopK : BFSearchCall(q, k)
    \/ \E q \in Queries, k \in 1..MaxTopK, w \in 0..MaxWorkers :
            BFSearchConcurrent(q, k, w)
    \/ BFCount
    \/ \E i \in 0..SetMax({3, MaxWorkers - 1}) : SCWorker(i)
    \/ SCMerge
    \/ SCFinish
    \/ Return

SpecBF == InitBF /\ [][NextBF]_vars

(***************************************************************************)
(* The HNSW index called directly, under each configuration.               *)
(***************************************************************************)
HNSWInsertCall(v, draws, limit) ==
    /\ Idle
    /\ Len(insertLog) < limit
    /\ SetGraph(HNSWInsert(Graph, config, v, randomLevel(config.ML, draws)))
    /\ rngDraws' = rngDraws + Len(draws)
    /\ insertLog' = Append(insertLog, v.ID)
    /\ response' = Reply("hnsw_insert", TRUE, v, <<>>, 0)
    /\ UNCHANGED <<vectors, config, sc, mu, tasks, twin, seedStream, walk, ui>>

\* HNSWIndex.InsertBatch is called: it takes no lock of its own and hands
\* its vectors to Insert one by one (HNSWInsertNext)
HNSWInsertBatchCall(c, vs) ==
    /\ tasks[c].pc = "idle"
    /\ Len(insertLog) + StillToInsert(Writers) + Len(vs) <= MaxVectors
    /\ tasks' = [tasks EXCEPT
            ![c] = Task("InsertBatch", IF Len(vs) = 0 THEN "returned" ELSE "next",
                        vs, vs, 0)]
    /\ UNCHANGED <<vectors, nodes, entryPoint, maxLevel, config, rngDraws, insertLog, sc, response, mu, twin, seedStream, walk, ui>>

\* "return len(vectors)" of HNSWIndex.InsertBatch
HNSWInsertBatchReturn(c) ==
    /\ tasks[c].pc = "returned"
    /\ tasks[c].op = "InsertBatch"
    /\ Idle
    /\ response' = Reply("hnsw_insert_batch", TRUE, tasks[c].request, <<>>, tasks[c].n)
    /\ tasks' = [tasks EXCEPT ![c] = NoTask]
    /\ UNCHANGED <<vectors, nodes, entryPoint, maxLevel, config, rngDraws, insertLog, sc, mu, twin, seedStream, walk, ui>>

HNSWSearchCall(query, topK) ==
    /\ Idle
    /\ response' = Reply("hnsw_search", TRUE, SearchArgs(query, topK, "hnsw", 0),
                         HNSWSearch(Graph, config, query, topK), 0)
    /\ UNCHANGED <<vectors, nodes, entryPoint, maxLevel, config, rngDraws, insertLog, sc, mu, tasks, twin, seedStream, walk, ui>>

HNSWCount ==
    /\ Idle
    /\ response' = Reply("hnsw_count", TRUE, <<>>, <<>>, Cardinality(DOMAIN nodes))
    /\ UNCHANGED <<vectors, nodes, entryPoint, maxLevel, config, rngDraws, insertLog, sc, mu, tasks, twin, seedStream, walk, ui>>

InitHNSW == InitCommon /\ config \in Configs /\ seedStream = <<>>

NextHNSW ==
    \/ \E v \in IndexPool, draws \in DrawRuns(config.ML) :
            HNSWInsertCall(v, draws, MaxVectors - StillToInsert(Writers))
    \/ \E c \in OneWriter, vs \in IndexBatches : HNSWInsertBatchCall(c, vs)
    \/ \E c \in OneWriter, draws \in DrawRuns(config.ML) : HNSWInsertNext(c, draws)
    \/ \E c \in OneWriter : HNSWInsertBatchReturn(c)
    \/ \E q \in Queries, k \in 1..MaxTopK : HNSWSearchCall(q, k)
    \/ HNSWCount
    \/ Return

SpecHNSW == InitHNSW /\ [][NextHNSW]_vars

(***************************************************************************)
(* The HNSW index under construction: inserts only, one more of them.      *)
(***************************************************************************)
NextBuild ==
    \/ \E v \in IndexPool, draws \in DrawRuns(config.ML) :
            HNSWInsertCall(v, draws, MaxBuild)
    \/ Return

SpecBuild == InitHNSW /\ [][NextBuild]_vars

(***************************************************************************)
(* The indexes called by several goroutines at once: each call is taken    *)
(* step by step, a step being what the call does between two operations on *)
(* the index's mutex or two writes to the index.                           *)
(***************************************************************************)
MaxShared == 2       \* vectors an index shared by several callers is given

\* the vectors and the searches of the concurrent callers
SharedPool == {v \in IndexPool : v.Metadata.DocumentID = "doc1"}

SharedBatches == {vs \in SeqsUpTo(SharedPool, MaxBatch) : Len(vs) > 0}

SharedSearches == {SearchArgs(Pad(<<1, 0>>, Dimensions), MaxTopK, "", 0)}

\* the caller takes what its call returned
TaskReturn(c) ==
    /\ tasks[c].pc = "returned"
    /\ tasks' = [tasks EXCEPT ![c] = NoTask]
    /\ UNCHANGED <<vectors, nodes, entryPoint, maxLevel, config, rngDraws, insertLog, sc, response, mu, twin, seedStream, walk, ui>>

\* BruteForceIndex.Insert / InsertBatch: idx.mu.Lock() is called
BFLockBegin(c, op, vs) ==
    /\ tasks[c].pc = "idle"
    /\ Len(vectors) + StillToInsert(Writers) + Len(vs) <= MaxShared
    /\ CanAnnounce(mu.bf)
    /\ mu' = [mu EXCEPT !.bf = Announce(@, c)]
    /\ tasks' = [tasks EXCEPT ![c] = Task(op, "lock", vs, <<>>, Len(vectors))]
    /\ UNCHANGED <<vectors, nodes, entryPoint, maxLevel, config, rngDraws, insertLog, sc, response, twin, seedStream, walk, ui>>

\* idx.mu.Lock() returns
BFLockEnd(c) ==
    /\ tasks[c].pc = "lock"
    /\ CanLock(mu.bf, c)
    /\ mu' = [mu EXCEPT !.bf = Lock(@)]
    /\ tasks' = [tasks EXCEPT ![c].pc = "locked"]
    /\ UNCHANGED <<vectors, nodes, entryPoint, maxLevel, config, rngDraws, insertLog, sc, response, twin, seedStream, walk, ui>>

\* the append of Insert / InsertBatch
BFAppend(c) ==
    /\ tasks[c].pc = "locked"
    /\ vectors' = AppendAll(vectors, tasks[c].queue)
    /\ tasks' = [tasks EXCEPT ![c].pc = "appended", ![c].queue = <<>>]
    /\ UNCHANGED <<nodes, entryPoint, maxLevel, config, rngDraws, insertLog, sc, response, mu, twin, seedStream, walk, ui>>

\* the deferred idx.mu.Unlock(); InsertBatch returns len(vectors)
BFUnlock(c) ==
    /\ tasks[c].pc = "appended"
    /\ mu' = [mu EXCEPT !.bf = Unlock(@)]
    /\ tasks' = [tasks EXCEPT ![c].pc = "returned",
                              ![c].count = IF tasks[c].op = "InsertBatch"
                                           THEN tasks[c].n ELSE 0]
    /\ UNCHANGED <<vectors, nodes, entryPoint, maxLevel, config, rngDraws, insertLog, sc, response, twin, seedStream, walk, ui>>

\* BruteForceIndex.Search / Count: idx.mu.RLock()
BFReadBegin(c, op, request) ==
    /\ tasks[c].pc = "idle"
    /\ CanRLock(mu.bf)
    /\ mu' = [mu EXCEPT !.bf = RLock(@)]
    /\ tasks' = [tasks EXCEPT ![c] = Task(op, "rlocked", <<>>, request, 0)]
    /\ UNCHANGED <<vectors, nodes, entryPoint, maxLevel, config, rngDraws, insertLog, sc, response, twin, seedStream, walk, ui>>

\* the body of Search / Count and the deferred idx.mu.RUnlock()
BFReadEnd(c) ==
    /\ tasks[c].pc = "rlocked"
    /\ tasks[c].op \in {"Search", "Count"}
    /\ mu' = [mu EXCEPT !.bf = RUnlock(@)]
    /\ tasks' = [tasks EXCEPT
            ![c].pc = "returned",
            ![c].base = Len(vectors),
            ![c].count = IF tasks[c].op = "Count" THEN Len(vectors) ELSE 0,
            ![c].results = IF tasks[c].op = "Search"
                           THEN BFSearch(vectors, tasks[c].request.Embedding,
                                         tasks[c].request.TopK)
                           ELSE <<>>]
    /\ UNCHANGED <<vectors, nodes, entryPoint, maxLevel, config, rngDraws, insertLog, sc, response, twin, seedStream, walk, ui>>

NextSharedBF ==
    \/ \E c \in Writers, v \in SharedPool : BFLockBegin(c, "Insert", <<v>>)
    \/ \E c \in Writers, vs \in SharedBatches : BFLockBegin(c, "InsertBatch", vs)
    \/ \E c \in Writers : BFLockEnd(c)
    \/ \E c \in Writers : BFAppend(c)
    \/ \E c \in Writers : BFUnlock(c)
    \/ \E c \in Readers, r \in SharedSearches : BFReadBegin(c, "Search", r)
    \/ \E c \in Readers : BFReadBegin(c, "Count", <<>>)
    \/ \E c \in Readers : BFReadEnd(c)
    \/ \E c \in Callers : TaskReturn(c)
    \/ \E r \in SharedSearches, w \in {2} :
            BFSearchConcurrent(r.Embedding, r.TopK, w)
    \/ \E i \in 0..3 : SCWorker(i)
    \/ SCMerge
    \/ SCFinish
    \/ Return

SpecSharedBF == InitBF /\ [][NextSharedBF]_vars

\* HNSWIndex.Insert, alone or as called by InsertBatch for its first
\* vector: idx.mu.Lock() is called
HNSWLockBegin(c, op, vs) ==
    /\ tasks[c].pc = "idle"
    /\ Len(insertLog) + StillToInsert(Writers) + Len(vs) <= MaxShared
    /\ CanAnnounce(mu.hnsw)
    /\ mu' = [mu EXCEPT !.hnsw = Announce(@, c)]
    /\ tasks' = [tasks EXCEPT
            ![c] = Task(op, "lock", vs, <<>>, Cardinality(DOMAIN nodes))]
    /\ UNCHANGED <<vectors, nodes, entryPoint, maxLevel, config, rngDraws, insertLog, sc, response, twin, seedStream, walk, ui>>

\* InsertBatch calls Insert for its next vector: idx.mu.Lock() is called
HNSWLockNext(c) ==
    /\ tasks[c].pc = "next"
    /\ CanAnnounce(mu.hnsw)
    /\ mu' = [mu EXCEPT !.hnsw = Announce(@, c)]
    /\ tasks' = [tasks EXCEPT ![c].pc = "lock"]
    /\ UNCHANGED <<vectors, nodes, entryPoint, maxLevel, config, rngDraws, insertLog, sc, response, twin, seedStream, walk, ui>>

\* idx.mu.Lock() returns
HNSWLockEnd(c) ==
    /\ tasks[c].pc = "lock"
    /\ CanLock(mu.hnsw, c)
    /\ mu' = [mu EXCEPT !.hnsw = Lock(@)]
    /\ tasks' = [tasks EXCEPT ![c].pc = "locked"]
    /\ UNCHANGED <<vectors, nodes, entryPoint, maxLevel, config, rngDraws, insertLog, sc, response, twin, seedStream, walk, ui>>

\* "level := idx.randomLevel()" to "idx.nodes[v.ID] = node"
HNSWRegister(c, draws) ==
    /\ tasks[c].pc = "locked"
    /\ nodes' = PutNode(nodes, Head(tasks[c].queue).ID,
                        HNSWNode(Head(tasks[c].queue), randomLevel(config.ML, draws)))
    /\ rngDraws' = rngDraws + Len(draws)
    /\ tasks' = [tasks EXCEPT ![c].pc = "registered",
                              ![c].level = randomLevel(config.ML, draws)]
    /\ UNCHANGED <<vectors, entryPoint, maxLevel, config, insertLog, sc, response, mu, twin, seedStream, walk, ui>>

\* the greedy descent and the layer loop of Insert
HNSWWire(c) ==
    /\ tasks[c].pc = "registered"
    /\ entryPoint # ""
    /\ nodes' = InsertLayers(nodes, config, Head(tasks[c].queue),
                    GreedyDescent(nodes, Head(tasks[c].queue).Embedding,
                                  entryPoint, maxLevel, tasks[c].level),
                    Min2(tasks[c].level, maxLevel))
    /\ tasks' = [tasks EXCEPT
            ![c].pc = IF tasks[c].level > maxLevel THEN "wired" ELSE "finished"]
    /\ UNCHANGED <<vectors, entryPoint, maxLevel, config, rngDraws, insertLog, sc, response, mu, twin, seedStream, walk, ui>>

\* "idx.entryPoint = v.ID", for the first node or for a node above maxLevel
HNSWSetEntryPoint(c) ==
    /\ \/ tasks[c].pc = "registered" /\ entryPoint = ""
       \/ tasks[c].pc = "wired"
    /\ entryPoint' = Head(tasks[c].queue).ID
    /\ tasks' = [tasks EXCEPT ![c].pc = "entry"]
    /\ UNCHANGED <<vectors, nodes, maxLevel, config, rngDraws, insertLog, sc, response, mu, twin, seedStream, walk, ui>>

\* "idx.maxLevel = level"
HNSWSetMaxLevel(c) ==
    /\ tasks[c].pc = "entry"
    /\ maxLevel' = tasks[c].level
    /\ tasks' = [tasks EXCEPT ![c].pc = "finished"]
    /\ UNCHANGED <<vectors, nodes, entryPoint, config, rngDraws, insertLog, sc, response, mu, twin, seedStream, walk, ui>>

\* Insert returns (the deferred idx.mu.Unlock()); InsertBatch goes on to its
\* next vector or returns len(vectors)
HNSWUnlock(c) ==
    /\ tasks[c].pc = "finished"
    /\ mu' = [mu EXCEPT !.hnsw = Unlock(@)]
    /\ insertLog' = Append(insertLog, Head(tasks[c].queue).ID)
    /\ tasks' = [tasks EXCEPT
            ![c].queue = Tail(@),
            ![c].pc = IF Len(tasks[c].queue) > 1 THEN "next" ELSE "returned",
            ![c].count = IF tasks[c].op = "InsertBatch" /\ Len(tasks[c].queue) = 1
                         THEN tasks[c].n ELSE 0]
    /\ UNCHANGED <<vectors, nodes, entryPoint, maxLevel, config, rngDraws, sc, response, twin, seedStream, walk, ui>>

\* HNSWIndex.Search / Count: idx.mu.RLock()
HNSWReadBegin(c, op, request) ==
    /\ tasks[c].pc = "idle"
    /\ CanRLock(mu.hnsw)
    /\ mu' = [mu EXCEPT !.hnsw = RLock(@)]
    /\ tasks' = [tasks EXCEPT ![c] = Task(op, "rlocked", <<>>, request, 0)]
    /\ UNCHANGED <<vectors, nodes, entryPoint, maxLevel, config, rngDraws, insertLog, sc, response, twin, seedStream, walk, ui>>

\* the body of Search / Count and the deferred idx.mu.RUnlock()
HNSWReadEnd(c) ==
    /\ tasks[c].pc = "rlocked"
    /\ tasks[c].op \in {"HNSWSearch", "HNSWCount"}
    /\ mu' = [mu EXCEPT !.hnsw = RUnlock(@)]
    /\ tasks' = [tasks EXCEPT
            ![c].pc = "returned",
            ![c].base = Cardinality(DOMAIN nodes),
            ![c].count = IF tasks[c].op = "HNSWCount"
                         THEN Cardinality(DOMAIN nodes) ELSE 0,
            ![c].results = IF tasks[c].op = "HNSWSearch"
                           THEN HNSWSearch(Graph, config, tasks[c].request.Embedding,
                                           tasks[c].request.TopK)
                           ELSE <<>>]
    /\ UNCHANGED <<vectors, nodes, entryPoint, maxLevel, config, rngDraws, insertLog, sc, response, twin, seedStream, walk, ui>>

NextSharedHNSW ==
    \/ \E c \in Writers, v \in SharedPool : HNSWLockBegin(c, "HNSWInsert", <<v>>)
    \/ \E c \in Writers, vs \in SharedBatches : HNSWLockBegin(c, "InsertBatch", vs)
    \/ \E c \in Writers : HNSWLockNext(c)
    \/ \E c \in Writers : HNSWLockEnd(c)
    \/ \E c \in Writers, draws \in DrawRuns(config.ML) : HNSWRegister(c, draws)
    \/ \E c \in Writers : HNSWWire(c)
    \/ \E c \in Writers : HNSWSetEntryPoint(c)
    \/ \E c \in Writers : HNSWSetMaxLevel(c)
    \/ \E c \in Writers : HNSWUnlock(c)
    \/ \E c \in Readers, r \in SharedSearches : HNSWReadBegin(c, "HNSWSearch", r)
    \/ \E c \in Readers : HNSWReadBegin(c, "HNSWCount", <<>>)
    \/ \E c \in Readers : HNSWReadEnd(c)
    \/ \E c \in Callers : TaskReturn(c)

SpecSharedHNSW == Init /\ [][NextSharedHNSW]_vars

(***************************************************************************)
(* Two HNSW indexes created with the same configuration, hence the same    *)
(* seed, and given the same vectors in the same order.  Each index reads   *)
(* the values of its own generator; seedStream is what a generator seeded  *)
(* with 42 returns, whatever that is.                                      *)
(***************************************************************************)
MaxTwin == 3         \* vectors each of the two indexes is given

StreamLen == 6       \* values of the seeded generator that are looked at

Streams == {st \in SeqsUpTo(DrawValues, StreamLen) : Len(st) = StreamLen}

\* a generator shared by the two indexes: a call reads on from where the
\* last call on either index stopped
SharedRngPosition(own, other) == own + other

\* idx.rng belongs to the index: a call reads on from where the last call on
\* this index stopped
RngPosition(own, other) == own

\* the lengths of the run of values one randomLevel call reads from pos on
RunLengths(ml, stream, pos) ==
    {j \in 1..Min2(MaxDrawnLevel + 1, Len(stream) - pos) :
        ReadsExactly(ml, SubSeq(stream, pos + 1, pos + j))}

HasRun(ml, stream, pos) == RunLengths(ml, stream, pos) # {}

NextRun(ml, stream, pos) ==
    SubSeq(stream, pos + 1, pos + CHOOSE j \in RunLengths(ml, stream, pos) : TRUE)

TwinGraph == [nodes |-> twin.nodes, entryPoint |-> twin.entryPoint, maxLevel |-> twin.maxLevel]

\* Insert(v) on the first index
FirstInsert(v, pos) ==
    /\ Len(insertLog) < MaxTwin
    /\ HasRun(config.ML, seedStream, pos)
    /\ SetGraph(HNSWInsert(Graph, config, v,
                    randomLevel(config.ML, NextRun(config.ML, seedStream, pos))))
    /\ rngDraws' = rngDraws + Len(NextRun(config.ML, seedStream, pos))
    /\ insertLog' = Append(insertLog, v.ID)
    /\ twin' = [twin EXCEPT !.queue = Append(@, v)]
    /\ UNCHANGED <<vectors, config, sc, response, mu, tasks, seedStream, walk, ui>>

\* the second index as it is after Insert(v) reading the values run
TwinAfter(g, run) ==
    [nodes |-> g.nodes, entryPoint |-> g.entryPoint, maxLevel |-> g.maxLevel,
     rngDraws |-> twin.rngDraws + Len(run), queue |-> Tail(twin.queue)]

\* Insert on the second index, of the next vector the first one was given
SecondInsert(pos) ==
    /\ Len(twin.queue) > 0
    /\ HasRun(config.ML, seedStream, pos)
    /\ twin' = TwinAfter(HNSWInsert(TwinGraph, config, Head(twin.queue),
                            randomLevel(config.ML, NextRun(config.ML, seedStream, pos))),
                         NextRun(config.ML, seedStream, pos))
    /\ UNCHANGED <<vectors, nodes, entryPoint, maxLevel, config, rngDraws, insertLog, sc, response, mu, tasks, seedStream, walk, ui>>

InitTwin == InitCommon /\ config \in Configs /\ seedStream \in Streams

NextTwin ==
    \/ \E v \in IndexPool : FirstInsert(v, RngPosition(rngDraws, twin.rngDraws))
    \/ SecondInsert(RngPosition(twin.rngDraws, rngDraws))

SpecTwin == InitTwin /\ [][NextTwin]_vars

(***************************************************************************)
(* The levels of the nodes: the index built under configurations whose mL  *)
(* ranges from 0 to above 1, randomLevel reading runs of every length up   *)
(* to the LevelCap + 1 values it reads when it stops at level 16.          *)
(***************************************************************************)
MaxLevelled == 2     \* vectors the index is given when levels are not bounded

\* mL = 0, the default 0.36, 1 and 2.5, in hundredths
LevelConfigs == {[SmallHNSWConfig EXCEPT !.ML = ml] : ml \in {0, 36, 100, 250}}

\* the runs of values one randomLevel call can read under mL = ml: n - 1
\* values b and a last value e
LongRuns(ml) ==
    {ds \in {[i \in 1..n |-> IF i < n THEN b ELSE e] :
                n \in 1..(LevelCap + 1), b \in DrawValues, e \in DrawValues} :
        ReadsExactly(ml, ds)}

InitLevels == InitCommon /\ config \in LevelConfigs /\ seedStream = <<>>

NextLevels ==
    \/ \E v \in IndexPool, draws \in LongRuns(config.ML) :
            HNSWInsertCall(v, draws, MaxLevelled)
    \/ Return

SpecLevels == InitLevels /\ [][NextLevels]_vars

(***************************************************************************)
(* The dispatcher serving several insert requests at once: net/http runs   *)
(* each handler in a goroutine of its own.                                 *)
(***************************************************************************)
MaxDispatch == 3     \* vectors the dispatcher is given by concurrent requests

\* the requests of the concurrent clients: two documents that share the id
\* "a", and one embedding of the wrong length
DispatchPool == {v \in VectorPool : v.Metadata.DocumentID \in {"doc1", "doc3"} /\ v.ID # ""}
                    \cup {v \in VectorPool : v.ID = "e"}

DispatchBatches == {vs \in SeqsUpTo(DispatchPool, MaxBatch) : Len(vs) > 0}

NextDispatch ==
    \/ \E c \in Writers, req \in DispatchPool : HandleInsert(c, req, MaxDispatch)
    \/ \E c \in Writers, reqs \in DispatchBatches : HandleInsertBatch(c, reqs, MaxDispatch)
    \/ \E c \in Writers, draws \in DrawRuns(config.ML) : HNSWInsertNext(c, draws)
    \/ \E c \in Writers : HandleInsertReply(c)
    \/ HandleStats
    \/ Return

SpecDispatch == Init /\ [][NextDispatch]_vars

(***************************************************************************)
(* The frontend script: checkHealth, sendQuery, and handleFile /           *)
(* uploadFile / pollTaskStatus.  Every await is a point where the function *)
(* returns to the event loop and any other callback may run; a step is one *)
(* turn of the event loop.                                                 *)
(***************************************************************************)
\* what the text box holds when sendQuery is called
QueryTexts == {"", "question"}

\* how a fetch settles: a response with response.ok, one without, or a
\* rejected promise
FetchOutcomes == {"ok", "nonok", "rejected"}

\* how the rest of sendQuery goes once the response is there: the body
\* parses and is shown, response.json() rejects, or addMessage throws on
\* the parsed body
BodyOutcomes == {"shown", "unparsable", "unrenderable"}

\* how "await response.json()" of uploadFile settles
UploadBodies == {"parsed", "rejected"}

\* the status a status response carries ("" when the body has none), or a
\* rejected response.json()
StatusReplies == {"extracting", "indexing", "", "completed", "failed", "rejected"}

\* the status the body of /health carries, or a rejected response.json()
HealthReplies == {"ok", "degraded", "rejected"}

\* the sessions followed: up to MaxCalls calls of sendQuery beside one
\* file, or MaxUploads files side by side and no query
WithinSession(calls, uploads) ==
    /\ calls <= MaxCalls
    /\ uploads <= MaxUploads
    /\ (uploads <= 1 \/ calls = 0)

\* the DOMContentLoaded listener: checkHealth() up to "await fetch"
DOMContentLoaded ==
    /\ ui.health = "none"
    /\ ui' = [ui EXCEPT !.health = "fetch"]
    /\ UNCHANGED <<vectors, nodes, entryPoint, maxLevel, config, rngDraws, insertLog, sc, response, mu, tasks, twin, seedStream, walk>>

\* checkHealth: the fetch of /health settles; a rejected one goes to the
\* catch block
HealthFetchSettles(outcome) ==
    /\ ui.health = "fetch"
    /\ ui' = [ui EXCEPT !.health = IF outcome = "rejected" THEN "done" ELSE "body"]
    /\ UNCHANGED <<vectors, nodes, entryPoint, maxLevel, config, rngDraws, insertLog, sc, response, mu, tasks, twin, seedStream, walk>>

\* checkHealth: "await response.json()" settles; enableChat() when the
\* status is 'ok'
HealthBodySettles(reply) ==
    /\ ui.health = "body"
    /\ ui' = [ui EXCEPT !.health = "done",
                        !.chatEnabled = IF reply = "ok" THEN TRUE ELSE @]
    /\ UNCHANGED <<vectors, nodes, entryPoint, maxLevel, config, rngDraws, insertLog, sc, response, mu, tasks, twin, seedStream, walk>>

\* sendQuery taking isProcessing for false always
NeverBusy(u) == FALSE

\* "isProcessing" of "if (!query || isProcessing) return;"
Busy(u) == u.isProcessing

\* the calls of sendQuery whose /api/query request is outstanding
Outstanding(u) == {s \in 1..MaxCalls : u.queries[s] \in {"fetch", "body_ok", "body_nonok"}}

\* sendQuery up to "await fetch"
SendQuery(text) ==
    /\ WithinSession(ui.calls + 1, ui.uploads)
    /\ ui' = IF text = "" \/ Busy(ui)
             THEN [ui EXCEPT !.calls = @ + 1, !.queries[ui.calls + 1] = "ignored"]
             ELSE [ui EXCEPT !.calls = @ + 1, !.queries[ui.calls + 1] = "fetch",
                             !.isProcessing = TRUE]
    /\ UNCHANGED <<vectors, nodes, entryPoint, maxLevel, config, rngDraws, insertLog, sc, response, mu, tasks, twin, seedStream, walk>>

\* sendQuery: the fetch of /api/query settles; a rejected one goes to the
\* catch block and on to "isProcessing = false"
QueryFetchSettles(s, outcome) ==
    /\ ui.queries[s] = "fetch"
    /\ ui' = IF outcome = "rejected"
             THEN [ui EXCEPT !.queries[s] = "errored", !.isProcessing = FALSE]
             ELSE [ui EXCEPT !.queries[s] = IF outcome = "ok" THEN "body_ok"
                                           ELSE "body_nonok"]
    /\ UNCHANGED <<vectors, nodes, entryPoint, maxLevel, config, rngDraws, insertLog, sc, response, mu, tasks, twin, seedStream, walk>>

\* sendQuery: "await response.json()" settles; a non-OK response throws,
\* so do a body that does not parse and one addMessage cannot show; the
\* catch block shows the error and "isProcessing = false" follows
QueryBodySettles(s, outcome) ==
    /\ ui.queries[s] \in {"body_ok", "body_nonok"}
    /\ ui' = [ui EXCEPT
                !.queries[s] = IF ui.queries[s] = "body_ok" /\ outcome = "shown"
                               THEN "answered" ELSE "errored",
                !.isProcessing = FALSE]
    /\ UNCHANGED <<vectors, nodes, entryPoint, maxLevel, config, rngDraws, insertLog, sc, response, mu, tasks, twin, seedStream, walk>>

\* handleFile: a file of a wrong type or size is refused with an alert,
\* any other goes to uploadFile, which sends it
HandleFile(valid) ==
    /\ WithinSession(ui.calls, ui.uploads + 1)
    /\ ui' = IF valid
             THEN [ui EXCEPT !.uploads = @ + 1,
                             !.up[ui.uploads + 1].phase = "uploading"]
             ELSE [ui EXCEPT !.uploads = @ + 1, !.alerts = @ + 1,
                             !.up[ui.uploads + 1].phase = "refused"]
    /\ UNCHANGED <<vectors, nodes, entryPoint, maxLevel, config, rngDraws, insertLog, sc, response, mu, tasks, twin, seedStream, walk>>

\* a catch block: showError and resetUpload
Failed(up, outcome) ==
    [up EXCEPT !.phase = "finished", !.outcome = outcome, !.resets = @ + 1]

\* uploadFile: the upload request settles.  With response.ok the function
\* goes on to "await response.json()"; otherwise its catch block runs
UploadSettles(s, outcome) ==
    /\ ui.up[s].phase = "uploading"
    /\ ui' = IF outcome = "ok"
             THEN [ui EXCEPT !.up[s].phase = "upload_body"]
             ELSE [ui EXCEPT !.up[s] = Failed(@, "upload_failed"), !.alerts = @ + 1]
    /\ UNCHANGED <<vectors, nodes, entryPoint, maxLevel, config, rngDraws, insertLog, sc, response, mu, tasks, twin, seedStream, walk>>

\* uploadFile: "await response.json()" settles; pollTaskStatus starts and
\* sends its first status request, or the catch block of uploadFile runs
UploadBodySettles(s, outcome) ==
    /\ ui.up[s].phase = "upload_body"
    /\ ui' = IF outcome = "parsed"
             THEN [ui EXCEPT !.up[s].phase = "polling", !.up[s].requests = @ + 1]
             ELSE [ui EXCEPT !.up[s] = Failed(@, "upload_failed"), !.alerts = @ + 1]
    /\ UNCHANGED <<vectors, nodes, entryPoint, maxLevel, config, rngDraws, insertLog, sc, response, mu, tasks, twin, seedStream, walk>>

\* pollTaskStatus: a status request settles; the function goes on to
\* "await response.json()" whatever response.ok is, a rejected fetch goes
\* to the catch block
StatusSettles(s, outcome) ==
    /\ ui.up[s].phase = "polling"
    /\ ui' = IF outcome = "rejected"
             THEN [ui EXCEPT !.up[s] = Failed(@, "error"), !.alerts = @ + 1]
             ELSE [ui EXCEPT !.up[s].phase = "status_body"]
    /\ UNCHANGED <<vectors, nodes, entryPoint, maxLevel, config, rngDraws, insertLog, sc, response, mu, tasks, twin, seedStream, walk>>

\* the 'completed' branch calling resetUpload at once as well
CompletedResetting(up) ==
    [up EXCEPT !.phase = "finished", !.outcome = "completed", !.added = @ + 1,
               !.timer = TRUE, !.resets = @ + 1]

\* pollTaskStatus: the branch "if (data.status === 'completed')"
Completed(up) ==
    [up EXCEPT !.phase = "finished", !.outcome = "completed", !.added = @ + 1,
               !.timer = TRUE]

\* pollTaskStatus: "await response.json()" of a status response settles
StatusBodySettles(s, reply) ==
    /\ ui.up[s].phase = "status_body"
    /\ ui' = IF reply = "completed"
             THEN [ui EXCEPT !.up[s] = Completed(@), !.documents = @ + 1]
             ELSE IF reply \in {"failed", "rejected"}
             THEN [ui EXCEPT !.up[s] = Failed(@, "error"), !.alerts = @ + 1]
             ELSE [ui EXCEPT !.up[s].phase = "sleeping", !.up[s].attempts = @ + 1]
    /\ UNCHANGED <<vectors, nodes, entryPoint, maxLevel, config, rngDraws, insertLog, sc, response, mu, tasks, twin, seedStream, walk>>

\* "while (attempts < maxAttempts)"
PollAgain(attempts) == attempts < MaxAttempts

\* pollTaskStatus: "await sleep(1000)" is over; the loop sends the next
\* status request or is left for the timeout
SleepOver(s) ==
    /\ ui.up[s].phase = "sleeping"
    /\ ui' = IF PollAgain(ui.up[s].attempts)
             THEN [ui EXCEPT !.up[s].phase = "polling", !.up[s].requests = @ + 1]
             ELSE [ui EXCEPT !.up[s] = Failed(@, "timeout"), !.alerts = @ + 1]
    /\ UNCHANGED <<vectors, nodes, entryPoint, maxLevel, config, rngDraws, insertLog, sc, response, mu, tasks, twin, seedStream, walk>>

\* the callback of "setTimeout(() => { resetUpload(); ...; enableChat(); }, 1500)"
TimerFires(s) ==
    /\ ui.up[s].timer
    /\ ui' = [ui EXCEPT !.up[s].timer = FALSE, !.up[s].resets = @ + 1,
                        !.chatEnabled = TRUE]
    /\ UNCHANGED <<vectors, nodes, entryPoint, maxLevel, config, rngDraws, insertLog, sc, response, mu, tasks, twin, seedStream, walk>>

NextUI ==
    \/ DOMContentLoaded
    \/ \E outcome \in FetchOutcomes : HealthFetchSettles(outcome)
    \/ \E reply \in HealthReplies : HealthBodySettles(reply)
    \/ \E text \in QueryTexts : SendQuery(text)
    \/ \E s \in 1..MaxCalls, outcome \in FetchOutcomes : QueryFetchSettles(s, outcome)
    \/ \E s \in 1..MaxCalls, outcome \in BodyOutcomes : QueryBodySettles(s, outcome)
    \/ \E valid \in BOOLEAN : HandleFile(valid)
    \/ \E s \in 1..MaxUploads, outcome \in FetchOutcomes : UploadSettles(s, outcome)
    \/ \E s \in 1..MaxUploads, outcome \in UploadBodies : UploadBodySettles(s, outcome)
    \/ \E s \in 1..MaxUploads, outcome \in FetchOutcomes : StatusSettles(s, outcome)
    \/ \E s \in 1..MaxUploads, reply \in StatusReplies : StatusBodySettles(s, reply)
    \/ \E s \in 1..MaxUploads : SleepOver(s)
    \/ \E s \in 1..MaxUploads : TimerFires(s)

SpecUI == Init /\ [][NextUI]_vars

(***************************************************************************)
(* HNSW Insert and Search followed loop by loop: a step is one pass of the *)
(* greedy descent's "for changed" loop, or one iteration of searchLayer's  *)
(* "for candidates.Len() > 0" loop; the loops over a neighbor list, which  *)
(* range over a slice, are taken whole.                                    *)
(***************************************************************************)
MaxWalkBuild == 3    \* vectors the index is given when calls are followed

CountIn(h, id) == Cardinality({i \in 1..Len(h) : h[i].ID = id})

\* pushes once the candidates heap went from before to after
CountPushes(pushes, before, after) ==
    [id \in Ids |-> pushes[id] + CountIn(after, id) - CountIn(before, id)]

\* Search up to its greedy descent: idx.mu.RLock() is taken, and held until
\* the call returns (at once on an empty index)
WalkSearchBegin(query, topK) ==
    /\ Idle
    /\ ~walk.active
    /\ CanRLock(mu.hnsw)
    /\ IF DOMAIN nodes = {} \/ entryPoint = ""
       THEN /\ response' = Reply("hnsw_search", TRUE,
                                 SearchArgs(query, topK, "hnsw", 0), <<>>, 0)
            /\ UNCHANGED <<walk, mu>>
       ELSE /\ walk' = [NoWalk EXCEPT !.active = TRUE, !.op = "search",
                                      !.topK = topK, !.query = query,
                                      !.phase = "greedy", !.cur = entryPoint,
                                      !.l = maxLevel, !.stop = 0,
                                      !.ef = config.EfSearch, !.layer = 0]
            /\ mu' = [mu EXCEPT !.hnsw = RLock(@)]
            /\ UNCHANGED response
    /\ UNCHANGED <<vectors, nodes, entryPoint, maxLevel, config, rngDraws, insertLog, sc, tasks, twin, seedStream, ui>>

\* Insert up to its greedy descent: idx.mu.Lock() is taken and held until the
\* call returns, the level is drawn, the node registered, and the call
\* returns at once when the index was empty
WalkInsertBegin(v, draws) ==
    /\ Idle
    /\ ~walk.active
    /\ LockFree(mu.hnsw, "w1")
    /\ Len(insertLog) < MaxWalkBuild
    /\ nodes' = PutNode(nodes, v.ID, HNSWNode(v, randomLevel(config.ML, draws)))
    /\ rngDraws' = rngDraws + Len(draws)
    /\ insertLog' = Append(insertLog, v.ID)
    /\ IF entryPoint = ""
       THEN /\ entryPoint' = v.ID
            /\ maxLevel' = randomLevel(config.ML, draws)
            /\ response' = Reply("hnsw_insert", TRUE, v, <<>>, 0)
            /\ UNCHANGED <<walk, mu>>
       ELSE /\ walk' = [NoWalk EXCEPT !.active = TRUE, !.op = "insert", !.v = v,
                                      !.level = randomLevel(config.ML, draws),
                                      !.query = v.Embedding,
                                      !.phase = "greedy", !.cur = entryPoint,
                                      !.l = maxLevel,
                                      !.stop = randomLevel(config.ML, draws),
                                      !.ef = config.EfConstruction,
                                      !.layer = Min2(randomLevel(config.ML, draws),
                                                     maxLevel)]
            /\ mu' = [mu EXCEPT !.hnsw = Lock(Announce(@, "w1"))]
            /\ UNCHANGED <<entryPoint, maxLevel, response>>
    /\ UNCHANGED <<vectors, config, sc, tasks, twin, seedStream, ui>>

\* what one pass of "for changed" at layer l ends on
PassFrom(cur, l, query) ==
    IF l < Len(nodes[cur].Neighbors)
    THEN GreedyPass(nodes, query, cur, nodes[cur].Neighbors[l + 1], FALSE)
    ELSE [cur |-> cur, changed |-> FALSE]

\* one pass of the "for changed" loop; a pass that did not move ends the
\* loop and l-- follows
CanGreedyPass == walk.active /\ walk.phase = "greedy" /\ walk.l > walk.stop

WalkGreedyPass ==
    /\ CanGreedyPass
    /\ walk' = IF PassFrom(walk.cur, walk.l, walk.query).changed
               THEN [walk EXCEPT !.cur = PassFrom(walk.cur, walk.l, walk.query).cur,
                                 !.steps = @ + 1]
               ELSE [walk EXCEPT !.l = @ - 1, !.steps = @ + 1]
    /\ UNCHANGED <<vectors, nodes, entryPoint, maxLevel, config, rngDraws, insertLog, sc, response, mu, tasks, twin, seedStream, ui>>

\* the descent is over, or Insert comes to its next layer: searchLayer is
\* called and pushes its entry node
CanSeed ==
    /\ walk.active
    /\ \/ walk.phase = "greedy" /\ walk.l <= walk.stop
       \/ walk.phase = "layer"

WalkSeed ==
    /\ CanSeed
    /\ walk' = IF HasNode(nodes, walk.cur)
               THEN [walk EXCEPT
                       !.steps = @ + 1,
                       !.phase = "beam",
                       !.st = SeedState(walk.cur,
                                  CosineDistance(walk.query, nodes[walk.cur].Vector)),
                       !.pushes = [NoCounts EXCEPT ![walk.cur] = 1],
                       !.expanded = NoCounts]
               ELSE [walk EXCEPT !.steps = @ + 1, !.phase = "out", !.st = NoBeam,
                                 !.pushes = NoCounts, !.expanded = NoCounts]
    /\ UNCHANGED <<vectors, nodes, entryPoint, maxLevel, config, rngDraws, insertLog, sc, response, mu, tasks, twin, seedStream, ui>>

\* one iteration of "for candidates.Len() > 0", p being heap.Pop(candidates):
\* break, continue, or the loop over the neighbors of the popped node
BeamIteration(w, p) ==
    IF Len(w.st.results) > 0 /\ p.item.Distance > w.st.results[1].Distance
    THEN [w EXCEPT !.phase = "out", !.st.candidates = p.heap]
    ELSE IF ~HasNode(nodes, p.item.ID) \/ w.layer >= Len(nodes[p.item.ID].Neighbors)
    THEN [w EXCEPT !.st.candidates = p.heap]
    ELSE [w EXCEPT
            !.st = ExploreNeighbors([w.st EXCEPT !.candidates = p.heap], nodes,
                       w.query, nodes[p.item.ID].Neighbors[w.layer + 1], w.ef),
            !.expanded[p.item.ID] = @ + 1]

CanBeamIterate ==
    walk.active /\ walk.phase = "beam" /\ Len(walk.st.candidates) > 0

WalkBeamIteration ==
    /\ CanBeamIterate
    /\ walk' = [BeamIteration(walk, HeapPop("distance", walk.st.candidates)) EXCEPT
                  !.steps = @ + 1,
                  !.pushes = CountPushes(walk.pushes,
                      HeapPop("distance", walk.st.candidates).heap,
                      BeamIteration(walk, HeapPop("distance", walk.st.candidates)).st.candidates)]
    /\ UNCHANGED <<vectors, nodes, entryPoint, maxLevel, config, rngDraws, insertLog, sc, response, mu, tasks, twin, seedStream, ui>>

\* searchLayer has left its loop
BeamOver == walk.phase = "out" \/ (walk.phase = "beam" /\ Len(walk.st.candidates) = 0)

\* searchLayer returns to Search, which collects the results and returns
\* (the deferred idx.mu.RUnlock())
CanSearchEnd == walk.active /\ walk.op = "search" /\ BeamOver

WalkSearchEnd ==
    /\ CanSearchEnd
    /\ response' = Reply("hnsw_search", TRUE,
                         SearchArgs(walk.query, walk.topK, "hnsw", 0),
                         CollectResults(nodes, walk.query,
                                        ExtractOutput(walk.st.results), walk.topK), 0)
    /\ walk' = NoWalk
    /\ mu' = [mu EXCEPT !.hnsw = RUnlock(@)]
    /\ UNCHANGED <<vectors, nodes, entryPoint, maxLevel, config, rngDraws, insertLog, sc, tasks, twin, seedStream, ui>>

\* the neighbors Insert selects from what searchLayer returned
WalkSelected ==
    selectNeighbors(walk.query, ExtractOutput(walk.st.results),
                    MLayer(config, walk.layer))

\* searchLayer returns to Insert, which wires the layer and goes on with the
\* layer below, or ends after layer 0 (the deferred idx.mu.Unlock())
CanInsertWire == walk.active /\ walk.op = "insert" /\ BeamOver

WalkInsertWire ==
    /\ CanInsertWire
    /\ nodes' = ConnectNeighbors(
                    [nodes EXCEPT ![walk.v.ID].Neighbors[walk.layer + 1] = <<>>],
                    walk.v.ID, WalkSelected, walk.layer, MLayer(config, walk.layer))
    /\ IF walk.layer > 0
       THEN /\ walk' = [walk EXCEPT
                          !.steps = @ + 1,
                          !.phase = "layer", !.layer = @ - 1, !.st = NoBeam,
                          !.cur = IF Len(WalkSelected) > 0
                                  THEN WalkSelected[1].ID ELSE walk.cur]
            /\ UNCHANGED <<entryPoint, maxLevel, response, mu>>
       ELSE /\ walk' = NoWalk
            /\ mu' = [mu EXCEPT !.hnsw = Unlock(@)]
            /\ entryPoint' = IF walk.level > maxLevel THEN walk.v.ID ELSE entryPoint
            /\ maxLevel' = IF walk.level > maxLevel THEN walk.level ELSE maxLevel
            /\ response' = Reply("hnsw_insert", TRUE, walk.v, <<>>, 0)
    /\ UNCHANGED <<vectors, config, rngDraws, insertLog, sc, tasks, twin, seedStream, ui>>

\* the call in progress has a next step: the condition under which one of
\* WalkGreedyPass, WalkSeed, WalkBeamIteration, WalkSearchEnd and
\* WalkInsertWire can be taken
CanStep == CanGreedyPass \/ CanSeed \/ CanBeamIterate \/ CanSearchEnd \/ CanInsertWire

NextWalk ==
    \/ \E v \in IndexPool, draws \in DrawRuns(config.ML) : WalkInsertBegin(v, draws)
    \/ \E q \in Queries, k \in 1..MaxTopK : WalkSearchBegin(q, k)
    \/ WalkGreedyPass
    \/ WalkSeed
    \/ WalkBeamIteration
    \/ WalkSearchEnd
    \/ WalkInsertWire
    \/ Return

SpecWalk == InitHNSW /\ [][NextWalk]_vars

(***************************************************************************)
(* Vocabulary of the properties.                                           *)
(***************************************************************************)
\* the ids given to the HNSW index so far are non-empty and pairwise distinct
DistinctIds ==
    /\ \A i \in 1..Len(insertLog) : insertLog[i] # ""
    /\ \A i, j \in 1..Len(insertLog) : i # j => insertLog[i] # insertLog[j]

Scores(results) == [i \in 1..Len(results) |-> results[i].Score]

Descending(scores) ==
    \A i \in 1..(Len(scores) - 1) : scores[i] >= scores[i + 1]

IdScore(results) ==
    [i \in 1..Len(results) |-> <<results[i].ID, results[i].Score>>]

Occurrences(s, x) == Cardinality({i \in 1..Len(s) : s[i] = x})

SameBag(a, b) ==
    /\ Len(a) = Len(b)
    /\ \A x \in Range(a) \cup Range(b) : Occurrences(a, x) = Occurrences(b, x)

ScoreValues == (0 - ScoreUnit)..ScoreUnit

\* the scores of results are the topK highest of the scores of vs for query,
\* with multiplicity: at every threshold as many as the stored vectors allow
TopScores(results, vs, query, topK) ==
    \A t \in ScoreValues :
        Cardinality({i \in 1..Len(results) : results[i].Score >= t})
          = Min2(topK, Cardinality({j \in 1..Len(vs) :
                        CosineSimilarity(query, vs[j].Embedding) >= t}))

\* the highest similarity to query among the nodes of the HNSW index
BestSimilarity(query) ==
    SetMax({CosineSimilarity(query, nodes[id].Vector) : id \in DOMAIN nodes})

(***************************************************************************)
(* C1: on a default-configured HNSW index filled one vector at a time with *)
(* distinct non-empty ids (fewer vectors than ef_search), Search(q, k),    *)
(* k >= 1, returns first a stored vector of maximal cosine similarity to q.*)
(* Stated of the step in which Search returns, against the index it ran on.*)
(***************************************************************************)
C1_FirstIsNearest ==
    [][(/\ response.op = "none"
        /\ response'.op = "hnsw_search"
        /\ config = DefaultHNSWConfig
        /\ DistinctIds
        /\ Len(insertLog) >= 1
        /\ Len(insertLog) <= config.EfSearch)
       => /\ Len(response'.results) >= 1
          /\ response'.results[1].Score
                = BestSimilarity(response'.request.Embedding)]_vars

(***************************************************************************)
(* C2: the list returned by HNSW Search(q, k) is in descending score order.*)
(***************************************************************************)
C2_HNSWDescending ==
    response.op = "hnsw_search" => Descending(Scores(response.results))

(***************************************************************************)
(* C3: brute-force Search(q, k), k >= 1, on n vectors returns exactly      *)
(* min(k, n) results, their scores are the min(k, n) highest similarities  *)
(* among the stored vectors, and they are listed in descending order.      *)
(***************************************************************************)
C3_BruteForceExact ==
    response.op = "bf_search" =>
        /\ Len(response.results) = Min2(response.request.TopK, Len(vectors))
        /\ TopScores(response.results, vectors, response.request.Embedding,
                     response.request.TopK)
        /\ Descending(Scores(response.results))
        /\ \A i \in 1..Len(response.results) :
              \E j \in 1..Len(vectors) :
                 /\ vectors[j].ID = response.results[i].ID
                 /\ CosineSimilarity(response.request.Embedding, vectors[j].Embedding)
                      = response.results[i].Score

\* a search that had to evict: more vectors than topK, and the best one was
\* not among the first topK stored
C3_Witness ==
    /\ response.op = "bf_search"
    /\ Len(vectors) > response.request.TopK
    /\ Len(response.results) = MaxTopK
    /\ \A j \in 1..response.request.TopK :
          CosineSimilarity(response.request.Embedding, vectors[j].Embedding)
            < response.results[1].Score

\* node a lists node b at layer l
Lists(a, b, l) ==
    /\ l < Len(nodes[a].Neighbors)
    /\ b \in Range(nodes[a].Neighbors[l + 1])

Layers == 0..LevelCap

(***************************************************************************)
(* C4: after inserts with pairwise distinct non-empty ids every edge is    *)
(* bidirectional at its layer: b is in a.Neighbors[l] exactly when a is in *)
(* b.Neighbors[l], also after a neighbor's list has been pruned.           *)
(***************************************************************************)
C4_Bidirectional ==
    DistinctIds =>
        \A a \in DOMAIN nodes, b \in DOMAIN nodes, l \in Layers :
            Lists(a, b, l) <=> Lists(b, a, l)

\* every neighbor list is within its layer's cap
DegreeBound ==
    \A a \in DOMAIN nodes : \A l \in 0..(Len(nodes[a].Neighbors) - 1) :
        Len(nodes[a].Neighbors[l + 1]) <= MLayer(config, l)

(***************************************************************************)
(* C5: after any sequence of HNSW inserts every node has at most MMax      *)
(* neighbors at layer 0 and at most M neighbors at every layer above 0.    *)
(***************************************************************************)
C5_DegreeBound == DegreeBound

\* what Search(q, k) returns on the stored vectors, for the request answered
SequentialResults ==
    BFSearch(vectors, response.request.Embedding, response.request.TopK)

\* no two stored vectors have the same similarity to query
NoTies(vs, query) ==
    \A i, j \in 1..Len(vs) :
        i # j => CosineSimilarity(query, vs[i].Embedding)
                   # CosineSimilarity(query, vs[j].Embedding)

(***************************************************************************)
(* C6 as stated: SearchConcurrent(q, k, W) returns the same multiset of    *)
(* (id, score) pairs as Search(q, k) under every order in which the        *)
(* workers deliver, also when several stored vectors have equal scores.    *)
(***************************************************************************)
C6_SameIdScoreBag ==
    response.op = "bf_search_concurrent" =>
        SameBag(IdScore(response.results), IdScore(SequentialResults))

(***************************************************************************)
(* C6 amended: when no two stored vectors have equal scores for q,         *)
(* SearchConcurrent(q, k, W) returns the same multiset of (id, score)      *)
(* pairs as Search(q, k) under every order in which the workers deliver.   *)
(***************************************************************************)
C6_SameIdScoreBagNoTies ==
    (response.op = "bf_search_concurrent"
        /\ NoTies(vectors, response.request.Embedding)) =>
        SameBag(IdScore(response.results), IdScore(SequentialResults))

\* a concurrent search over several chunks of a full index without ties,
\* with fewer results than vectors and the best vector in the last chunk
C6_Witness ==
    /\ response.op = "bf_search_concurrent"
    /\ NoTies(vectors, response.request.Embedding)
    /\ response.request.NumWorkers >= 2
    /\ Len(vectors) = MaxVectors
    /\ response.request.TopK < Len(vectors)
    /\ Len(response.results) = response.request.TopK
    /\ response.results[1].ID = vectors[Len(vectors)].ID

(***************************************************************************)
(* C7: the sequence of scores returned by SearchConcurrent(q, k, W) equals *)
(* the sequence of scores returned by Search(q, k), for any W; the two may *)
(* differ only in which of several equal-score vectors is reported.        *)
(***************************************************************************)
C7_SameScores ==
    response.op = "bf_search_concurrent" =>
        Scores(response.results) = Scores(SequentialResults)

\* a concurrent search that reports another equal-score vector than Search
C7_Witness ==
    /\ response.op = "bf_search_concurrent"
    /\ response.request.NumWorkers >= 2
    /\ Len(response.results) >= 1
    /\ IdScore(response.results) # IdScore(SequentialResults)

\* a step leaves both indexes as they are
IndexesUnchanged == UNCHANGED <<vectors, nodes, entryPoint, maxLevel>>

(***************************************************************************)
(* C8: an insert whose embedding length differs from the configured        *)
(* dimension is rejected with an error, and neither index changes.         *)
(***************************************************************************)
C8_BadLengthRejected ==
    [][(response'.op = "insert" /\ response.op = "none"
          /\ Len(response'.request.Embedding) # Dimensions)
        => (~response'.ok /\ IndexesUnchanged)]_vars

\* a rejected insert of a vector of the wrong length into non-empty indexes
C8_Witness ==
    /\ response.op = "insert"
    /\ Len(response.request.Embedding) # Dimensions
    /\ ~response.ok
    /\ Len(vectors) >= 1
    /\ DOMAIN nodes # {}

(***************************************************************************)
(* C9: an insert_batch in which any vector has the wrong embedding length  *)
(* rejects the whole batch: the inserted count is 0 and no vector of the   *)
(* batch is added to either index.                                         *)
(***************************************************************************)
C9_BatchRejected ==
    [][(response'.op = "insert_batch" /\ response.op = "none"
          /\ \E i \in 1..Len(response'.request) :
                Len(response'.request[i].Embedding) # Dimensions)
        => (~response'.ok /\ response'.count = 0 /\ IndexesUnchanged)]_vars

\* a rejected batch whose first vector is well-formed and whose second is not
C9_Witness ==
    /\ response.op = "insert_batch"
    /\ Len(response.request) = 2
    /\ Len(response.request[1].Embedding) = Dimensions
    /\ Len(response.request[2].Embedding) # Dimensions
    /\ ~response.ok
    /\ response.count = 0

(***************************************************************************)
(* C10: an insert with an empty id is reported as an input violation and   *)
(* leaves both indexes unchanged.                                          *)
(***************************************************************************)
C10_EmptyIdRejected ==
    [][(response'.op = "insert" /\ response.op = "none"
          /\ response'.request.ID = "")
        => (~response'.ok /\ IndexesUnchanged)]_vars

(***************************************************************************)
(* C11: on an index into which nothing has been inserted, search returns   *)
(* an empty list for every query and every k, for each of the algorithms   *)
(* bruteforce, bruteforce_concurrent and hnsw.                             *)
(***************************************************************************)
C11_EmptyIndexEmptyResult ==
    (/\ response.op = "search"
     /\ response.ok
     /\ \/ Len(vectors) = 0
        \/ response.request.Algorithm \in {"", "hnsw"} /\ insertLog = <<>>)
    => response.results = <<>>

\* an accepted brute-force search answered on the empty index
C11_Witness ==
    /\ response.op = "search"
    /\ response.ok
    /\ response.request.Algorithm = "bruteforce"
    /\ response.request.TopK >= 1
    /\ insertLog = <<>>
    /\ Len(vectors) = 0
    /\ DOMAIN nodes = {}

\* what the Search just answered returns when it is called once more, on the
\* state it left
SearchAgain ==
    IF response'.request.Algorithm = "bruteforce"
    THEN BFSearch(vectors', response'.request.Embedding,
                  IF response'.request.TopK <= 0 THEN 10 ELSE response'.request.TopK)
    ELSE HNSWSearch([nodes |-> nodes', entryPoint |-> entryPoint',
                     maxLevel |-> maxLevel'],
                    config', response'.request.Embedding,
                    IF response'.request.TopK <= 0 THEN 10 ELSE response'.request.TopK)

(***************************************************************************)
(* C12: Search is read-only and repeatable: a Search on the brute-force or *)
(* the HNSW index changes no index state (vectors, nodes, neighbor lists,  *)
(* entry point, max level, random generator), so the same Search called    *)
(* again with no insert in between returns the identical result list.      *)
(***************************************************************************)
C12_SearchReadOnly ==
    [][(/\ response.op = "none"
        /\ response'.op = "search"
        /\ response'.ok
        /\ response'.request.Algorithm \in {"", "hnsw", "bruteforce"})
       => (/\ UNCHANGED <<vectors, nodes, entryPoint, maxLevel, rngDraws, config>>
           /\ response'.results = SearchAgain)]_vars

\* an HNSW search answered with two results
C12_Witness ==
    /\ response.op = "search"
    /\ response.ok
    /\ response.request.Algorithm = "hnsw"
    /\ Len(response.results) >= 2

\* entry_point is absent exactly when there is no node, and otherwise names
\* a node whose Layer is max_level
EntryPointAtTop ==
    /\ entryPoint = "" <=> DOMAIN nodes = {}
    /\ entryPoint # "" =>
          /\ entryPoint \in DOMAIN nodes
          /\ nodes[entryPoint].Layer = maxLevel

(***************************************************************************)
(* C13: after every completed HNSW insert (ids distinct and non-empty),    *)
(* entry_point is absent exactly when the index has no nodes, and          *)
(* otherwise names an existing node whose Layer equals max_level.          *)
(***************************************************************************)
C13_EntryPointAtTop == DistinctIds => EntryPointAtTop

\* distinct ids, and a later node has taken the entry point from the first
C13_Witness ==
    /\ DistinctIds
    /\ Len(insertLog) >= 2
    /\ maxLevel >= 1
    /\ entryPoint # insertLog[1]
    /\ entryPoint \in DOMAIN nodes

\* max_level is -1 on the empty index and otherwise the highest Layer stored
MaxLevelIsTop ==
    /\ maxLevel >= 0 <=> DOMAIN nodes # {}
    /\ DOMAIN nodes = {} => maxLevel = 0 - 1
    /\ DOMAIN nodes # {} =>
          maxLevel = SetMax({nodes[id].Layer : id \in DOMAIN nodes})

(***************************************************************************)
(* C14: after every completed HNSW insert, max_level >= 0                  *)
(* exactly when the index is non-empty (-1 when empty), and max_level      *)
(* equals the maximum Layer over all stored nodes.                         *)
(***************************************************************************)
C14_MaxLevelIsTop == MaxLevelIsTop

\* every neighbor id resolves to a node that has the layer it is listed at
NoDanglingNeighbors ==
    \A a \in DOMAIN nodes : \A l \in 0..(Len(nodes[a].Neighbors) - 1) :
        \A i \in 1..Len(nodes[a].Neighbors[l + 1]) :
            /\ nodes[a].Neighbors[l + 1][i] \in DOMAIN nodes
            /\ nodes[nodes[a].Neighbors[l + 1][i]].Layer >= l

(***************************************************************************)
(* C15: after any sequence of HNSW inserts with distinct non-empty ids,    *)
(* every id stored in some node's Neighbors[l] is the id of a node present *)
(* in the index whose own Layer is >= l.                                   *)
(***************************************************************************)
C15_NoDanglingNeighbors == DistinctIds => NoDanglingNeighbors

\* distinct ids, an edge above layer 0 and a node that stays at layer 0
C15_Witness ==
    /\ DistinctIds
    /\ \E a \in DOMAIN nodes :
          /\ Len(nodes[a].Neighbors) >= 2
          /\ Len(nodes[a].Neighbors[2]) >= 1
    /\ \E b \in DOMAIN nodes : nodes[b].Layer = 0

(***************************************************************************)
(* C20: when SearchConcurrent returns, every worker it started has         *)
(* delivered its partial result and finished, and each worker's result has *)
(* been merged exactly once; no worker is still running.                   *)
(***************************************************************************)
C20_WorkersJoined ==
    [][(sc.active /\ ~sc'.active) =>
          /\ sc.pending = {}
          /\ sc.resultsChan = <<>>
          /\ \A w \in sc.launched : Occurrences(sc.merged, w) = 1
          /\ Len(sc.merged) = Cardinality(sc.launched)]_vars

\* a call that launched three workers, one vector each, has returned
C20_Witness ==
    /\ response.op = "bf_search_concurrent"
    /\ response.request.NumWorkers = 3
    /\ Len(vectors) = 3
    /\ Len(response.results) >= 1

\* an InsertBatch call of caller c has inserted some of its vectors, not all
PartlyApplied(c) ==
    /\ tasks[c].op = "InsertBatch"
    /\ Len(tasks[c].queue) > 0
    /\ Len(tasks[c].queue) < tasks[c].n

(***************************************************************************)
(* C16: HNSW insert_batch holds the HNSW index's exclusive writer lock for *)
(* the full duration of the batch: no Search or Count on the HNSW index    *)
(* runs between the insertion of the first and of the last vector of one   *)
(* batch, so no reader observes the batch partly applied.                  *)
(***************************************************************************)
C16_BatchExclusive ==
    \A w \in Writers : PartlyApplied(w) => mu.hnsw.readers = 0

\* caller c is between the return of idx.mu.Lock() and idx.mu.Unlock()
Inside(c) == tasks[c].pc \in {"locked", "registered", "wired", "entry", "finished", "appended"}

\* caller c holds the reader lock
Reading(c) == tasks[c].pc = "rlocked"

\* the batch of caller w is not seen partly by a reader that found seen vectors
NoneOrAll(w, seen) ==
    ~(tasks[w].base < seen /\ seen < tasks[w].base + tasks[w].n)

(***************************************************************************)
(* C17: brute-force insert_batch is atomic with respect to concurrent      *)
(* readers: a Search, SearchConcurrent or Count that overlaps a batch of n *)
(* vectors observes either none or all n of them, and the batch reports n  *)
(* as the inserted count.                                                  *)
(***************************************************************************)
C17_BatchAtomic ==
    \A w \in Writers : tasks[w].op = "InsertBatch" =>
        /\ mu.bf.readers > 0 => NoneOrAll(w, Len(vectors))
        /\ \A r \in Readers : tasks[r].pc = "returned" => NoneOrAll(w, tasks[r].base)
        /\ tasks[w].pc = "returned" =>
              /\ tasks[w].count = tasks[w].n
              /\ Len(vectors) >= tasks[w].base + tasks[w].n

\* a batch of two has returned and a Count that began before the batch
\* returned has found both vectors
C17_Witness ==
    \E w \in Writers, r \in Readers :
        /\ tasks[w].op = "InsertBatch"
        /\ tasks[w].n = 2
        /\ tasks[w].pc = "returned"
        /\ tasks[r].op = "Count"
        /\ tasks[r].pc = "returned"
        /\ tasks[r].count = tasks[w].base + 2

(***************************************************************************)
(* C18: an Insert excludes every reader and every other writer for its     *)
(* whole critical section, while searches may overlap one another: no      *)
(* Search or Count holds the HNSW reader lock while a node is registered   *)
(* but not wired, or while entry_point is updated and max_level is not.    *)
(***************************************************************************)
C18_InsertExclusive ==
    \A w \in Writers : Inside(w) =>
        /\ \A r \in Readers : ~Reading(r)
        /\ mu.hnsw.readers = 0
        /\ \A x \in Writers \ {w} : ~Inside(x)

\* two searches overlap on an index that holds a node, while an Insert
\* waits in idx.mu.Lock() for them to leave
C18_Witness ==
    /\ \A r \in Readers : Reading(r) /\ tasks[r].op = "HNSWSearch"
    /\ Cardinality(DOMAIN nodes) >= 1
    /\ entryPoint # ""
    /\ \E w \in Writers : tasks[w].pc = "lock" /\ tasks[w].op = "HNSWInsert"

(***************************************************************************)
(* C19: SearchConcurrent holds the brute-force reader lock from before it  *)
(* starts its first worker until after the merge finishes: no Insert or    *)
(* InsertBatch takes effect between the start and the return of the call.  *)
(***************************************************************************)
C19_SnapshotHeld ==
    [][sc.active =>
          /\ mu.bf.readers >= 1
          /\ ~mu.bf.granted
          /\ vectors' = vectors]_vars

\* a SearchConcurrent call has merged a partial result while an InsertBatch
\* waits in idx.mu.Lock()
C19_Witness ==
    /\ sc.active
    /\ Len(sc.merged) >= 1
    /\ \E w \in Writers : tasks[w].pc = "lock" /\ tasks[w].op = "InsertBatch"

\* the algorithms the switch of HandleSearch has a case for
KnownAlgorithms == {"hnsw", "bruteforce", "bruteforce_concurrent"}

\* the dispatcher answers a search request
SearchAnswered == response.op = "none" /\ response'.op = "search"

(***************************************************************************)
(* C21: a dispatcher search whose query length differs from D, or whose    *)
(* algorithm (after defaulting) is not one of "hnsw", "bruteforce",        *)
(* "bruteforce_concurrent", returns an error, runs no index search and     *)
(* changes no index state.                                                 *)
(***************************************************************************)
C21_BadSearchRejected ==
    [][(/\ SearchAnswered
        /\ \/ Len(response'.request.Embedding) # Dimensions
           \/ response'.request.Algorithm \notin KnownAlgorithms \cup {""})
       => (/\ ~response'.ok
           /\ response'.results = <<>>
           /\ UNCHANGED sc
           /\ IndexesUnchanged
           /\ UNCHANGED rngDraws)]_vars

\* a search with a query of the right length and an unknown algorithm has
\* been refused on indexes that hold vectors
C21_Witness ==
    /\ response.op = "search"
    /\ ~response.ok
    /\ response.request.Algorithm = "annoy"
    /\ Len(response.request.Embedding) = Dimensions
    /\ Len(vectors) >= 1
    /\ entryPoint # ""

(***************************************************************************)
(* C22: the dispatcher replaces k <= 0 by 10 and an empty algorithm by     *)
(* "hnsw" before dispatching, so every index search reached through the    *)
(* dispatcher is called with k >= 1.                                       *)
(***************************************************************************)
C22_DefaultsApplied ==
    [][(/\ response.op = "none" /\ ~sc.active
        /\ \/ response'.op = "search" /\ response'.ok
           \/ sc'.active)
       => LET req == IF sc'.active THEN sc'.request ELSE response'.request
              k == IF req.TopK <= 0 THEN 10 ELSE req.TopK
          IN /\ k >= 1
             /\ req.Algorithm = "bruteforce" =>
                    response'.results = BFSearch(vectors, req.Embedding, k)
             /\ req.Algorithm \in {"", "hnsw"} =>
                    response'.results = HNSWSearch(Graph, config, req.Embedding, k)
             /\ sc'.active => sc'.topK = k /\ sc'.topK >= 1
             /\ (req.Algorithm = "bruteforce_concurrent" /\ ~sc'.active) =>
                    response'.results = <<>>]_vars

\* a search sent with k = 0 and no algorithm has returned two results
C22_Witness ==
    /\ response.op = "search"
    /\ response.ok
    /\ response.request.TopK = 0
    /\ response.request.Algorithm = ""
    /\ Len(response.results) = 2

(***************************************************************************)
(* C23: HNSW construction is deterministic: two indexes created with the   *)
(* same configuration (same seed, hence the same sequence of drawn levels) *)
(* and fed the same vectors in the same order end with identical nodes,    *)
(* layers, neighbor lists, entry_point and max_level, and answer every     *)
(* search identically.                                                     *)
(***************************************************************************)
C23_Deterministic ==
    twin.queue = <<>> =>
        /\ twin.nodes = nodes
        /\ twin.entryPoint = entryPoint
        /\ twin.maxLevel = maxLevel
        /\ twin.rngDraws = rngDraws
        /\ \A q \in Queries, k \in 1..MaxTopK :
              HNSWSearch(TwinGraph, config, q, k) = HNSWSearch(Graph, config, q, k)

\* both indexes were given three vectors, levels 0 and 1 were drawn and a
\* node has a neighbor at layer 1
C23_Witness ==
    /\ twin.queue = <<>>
    /\ Len(insertLog) = MaxTwin
    /\ Cardinality(DOMAIN twin.nodes) = MaxTwin
    /\ \E a \in DOMAIN twin.nodes : twin.nodes[a].Layer = 0
    /\ \E a \in DOMAIN twin.nodes :
          /\ twin.nodes[a].Layer = 1
          /\ Len(twin.nodes[a].Neighbors[2]) >= 1

\* the position in idx.vectors of the vector a result was made from
PositionOf(vs, r) ==
    CHOOSE i \in 1..Len(vs) : vs[i].ID = r.ID /\ vs[i].Metadata = r.Metadata

\* the stored vectors differ pairwise in id or metadata
DistinctVectors(vs) ==
    \A i, j \in 1..Len(vs) :
        (vs[i].ID = vs[j].ID /\ vs[i].Metadata = vs[j].Metadata) => i = j

(***************************************************************************)
(* C24: in brute-force Search, ties in score break by insertion order:     *)
(* among stored vectors with equal score, an earlier-inserted vector is    *)
(* never displaced by a later one at the top-k boundary, and within the    *)
(* returned list equal-score results appear in the order in which they     *)
(* were inserted.                                                          *)
(***************************************************************************)
C24_TiesByInsertion ==
    (response.op = "bf_search" /\ DistinctVectors(vectors)) =>
        LET rs == response.results
            q == response.request.Embedding
            at == [i \in 1..Len(rs) |-> PositionOf(vectors, rs[i])]
        IN /\ \A i, j \in 1..Len(rs) :
                 (i < j /\ rs[i].Score = rs[j].Score) => at[i] < at[j]
           /\ \A i \in 1..Len(rs) : \A p \in 1..(at[i] - 1) :
                 CosineSimilarity(q, vectors[p].Embedding) = rs[i].Score
                    => \E j \in 1..Len(rs) : at[j] = p

\* vs continues the list before
Extends(vs, before) == Len(vs) >= Len(before) /\ SubSeq(vs, 1, Len(before)) = before

(***************************************************************************)
(* C25: stored vectors are never mutated or deleted: for every id present  *)
(* in an index, no later operation (Search, Count, Insert or InsertBatch   *)
(* of any vector, including one that reuses an id already present) changes *)
(* or removes the embedding, metadata or HNSW layer stored for that id,    *)
(* and brute-force Count never decreases.                                  *)
(***************************************************************************)
C25_NeverMutated ==
    [][/\ Extends(vectors', vectors)
       /\ \A id \in DOMAIN nodes :
             /\ id \in DOMAIN nodes'
             /\ nodes'[id].Vector = nodes[id].Vector
             /\ nodes'[id].Metadata = nodes[id].Metadata
             /\ nodes'[id].Layer = nodes[id].Layer]_vars

\* result r of a search for query is made from the stored vector v
MadeFrom(r, query, v) ==
    /\ r.ID = v.ID
    /\ r.Metadata = v.Metadata
    /\ r.Score = CosineSimilarity(query, v.Embedding)

\* result r of an HNSW search for query is made from the node it names
MadeFromNode(r, query) ==
    /\ r.ID \in DOMAIN nodes
    /\ r.Metadata = nodes[r.ID].Metadata
    /\ r.Score = CosineSimilarity(query, nodes[r.ID].Vector)

(***************************************************************************)
(* C26: every result (id, score, metadata) returned by any search          *)
(* algorithm refers to a stored vector: id is the id of a vector in the    *)
(* index, score is the cosine similarity between the query and that        *)
(* vector's stored embedding (also for HNSW), and metadata is exactly the  *)
(* metadata given when that id was inserted.  Stated of the step that       *)
(* answers the search, against the indexes as the search found them.       *)
(***************************************************************************)
C26_ResultsAreStored ==
    [][(response.op = "none" /\ response'.op = "search" /\ response'.ok) =>
        \A i \in 1..Len(response'.results) :
            /\ \E p \in 1..Len(vectors) :
                  MadeFrom(response'.results[i], response'.request.Embedding, vectors[p])
            /\ response'.request.Algorithm \in {"", "hnsw"} =>
                  MadeFromNode(response'.results[i], response'.request.Embedding)]_vars

\* an HNSW search through the dispatcher has returned two results of
\* different scores, one of them below the highest possible
C26_Witness ==
    /\ response.op = "search"
    /\ response.ok
    /\ response.request.Algorithm = "hnsw"
    /\ Len(response.results) = 2
    /\ response.results[1].Score # response.results[2].Score
    /\ response.results[1].Metadata # response.results[2].Metadata

\* the distances of a list of distanceNodes never decrease
AscendingDistance(out) ==
    \A i, j \in 1..Len(out) : i < j => out[i].Distance <= out[j].Distance

(***************************************************************************)
(* C27: searchLayer(q, entry, ef, l) returns its kept candidates sorted by *)
(* ascending cosine distance to q: the first element of the returned list  *)
(* is the closest kept node and the last is the furthest.                  *)
(***************************************************************************)
C27_SearchLayerAscending ==
    entryPoint \in DOMAIN nodes =>
        \A q \in Queries :
            AscendingDistance(searchLayer(nodes, q, entryPoint, config.EfSearch, 0))

\* every node of sel is at least as close as every node of cands left out of
\* sel, and the first of sel is the closest of cands
ClosestFirst(sel, cands) ==
    /\ \A i \in 1..Len(sel), j \in 1..Len(cands) :
          (\A k \in 1..Len(sel) : sel[k].ID # cands[j].ID)
             => sel[i].Distance <= cands[j].Distance
    /\ \A j \in 1..Len(cands) : sel[1].Distance <= cands[j].Distance

\* what the layer-0 iteration of Insert(v) selects on the present index when
\* it searches with width ef and keeps m neighbors
SelectedAtBase(v, ef, m) ==
    LET registered == PutNode(nodes, v.ID, HNSWNode(v, 0))
        cands == searchLayer(registered, v.Embedding,
                     GreedyDescent(registered, v.Embedding, entryPoint, maxLevel, 0),
                     ef, 0)
    IN [cands |-> cands, sel |-> selectNeighbors(v.Embedding, cands, m)]

(***************************************************************************)
(* C28: during an HNSW insert at layer l, when searchLayer yields more     *)
(* than m_target candidates, the neighbors given to the new node are the   *)
(* m_target candidates with the smallest cosine distance to the new        *)
(* vector, and the entry carried to the next lower layer is the closest    *)
(* candidate.                                                              *)
(***************************************************************************)
C28_ClosestSelected ==
    (DistinctIds /\ entryPoint \in DOMAIN nodes) =>
        \A v \in IndexPool, ef \in 1..3, m \in 1..2 :
            (v.ID # "" /\ v.ID \notin DOMAIN nodes) =>
                LET s == SelectedAtBase(v, ef, m)
                IN Len(s.cands) > m =>
                      Len(s.sel) = m /\ ClosestFirst(s.sel, s.cands)

\* the list of node a at layer l once Insert has appended x to it and pruned
\* it when it exceeds the layer's bound
AfterReverseEdge(a, x, l) ==
    AddReverse(nodes, x, a, l, MLayer(config, l))[a].Neighbors[l + 1]

\* kept holds m entries of list, none further from node a than an entry of
\* list that was left out
KeepsClosest(a, kept, list, m) ==
    /\ Len(kept) = m
    /\ \A k \in Range(kept) : Occurrences(kept, k) <= Occurrences(list, k)
    /\ \A k \in Range(kept), d \in Range(list) :
          Occurrences(kept, d) < Occurrences(list, d) =>
              CosineDistance(nodes[a].Vector, nodes[k].Vector)
                 <= CosineDistance(nodes[a].Vector, nodes[d].Vector)

(***************************************************************************)
(* C29: when adding a reverse edge makes a neighbor's list at layer l      *)
(* longer than m_target, pruning leaves that neighbor with exactly the     *)
(* m_target ids of its previous list (including the new node) that have    *)
(* the smallest cosine distance to the neighbor's own embedding; lists of  *)
(* length <= m_target are left untouched.                                  *)
(***************************************************************************)
C29_PruneKeepsClosest ==
    \A a \in DOMAIN nodes : \A x \in DOMAIN nodes :
        \A l \in 0..(Len(nodes[a].Neighbors) - 1) :
            LET list == Append(nodes[a].Neighbors[l + 1], x)
            IN IF Len(list) > MLayer(config, l)
               THEN KeepsClosest(a, AfterReverseEdge(a, x, l), list, MLayer(config, l))
               ELSE AfterReverseEdge(a, x, l) = list

\* a node whose list is full and another node closer to it than one of its
\* neighbors: the reverse edge makes pruning drop a neighbor
C29_Witness ==
    /\ DistinctIds
    /\ \E a \in DOMAIN nodes : \E x \in DOMAIN nodes \ ({a} \cup Range(nodes[a].Neighbors[1])) :
          /\ Len(nodes[a].Neighbors[1]) = MLayer(config, 0)
          /\ \E d \in Range(nodes[a].Neighbors[1]) :
                CosineDistance(nodes[a].Vector, nodes[x].Vector)
                   < CosineDistance(nodes[a].Vector, nodes[d].Vector)
          /\ x \in Range(AfterReverseEdge(a, x, 0))

\* the 0-based positions of idx.vectors handed to worker i of the call in
\* progress
Scored(i) ==
    {p \in 0..(Len(vectors) - 1) :
        /\ ChunkStart(Len(vectors), sc.numWorkers, i) <= p
        /\ p < ChunkEnd(Len(vectors), sc.numWorkers, i)}

(***************************************************************************)
(* C30: SearchConcurrent with W workers (4 when W <= 0) splits the n       *)
(* stored vectors into at most W contiguous chunks that are pairwise       *)
(* disjoint and together cover positions 0..n-1, so every stored vector is *)
(* scored by exactly one worker, and no worker is started on an empty      *)
(* chunk.                                                                  *)
(***************************************************************************)
C30_ChunksPartition ==
    sc.active =>
        /\ Cardinality(sc.launched) <= (IF sc.numWorkers <= 0 THEN 4 ELSE sc.numWorkers)
        /\ \A i \in sc.launched :
              /\ Scored(i) # {}
              /\ \A p, q \in Scored(i) : \A r \in p..q : r \in Scored(i)
              /\ Len(Chunk(vectors, sc.numWorkers, i)) = Cardinality(Scored(i))
        /\ \A i, j \in sc.launched : i # j => Scored(i) \cap Scored(j) = {}
        /\ \A p \in 0..(Len(vectors) - 1) :
              Cardinality({i \in sc.launched : p \in Scored(i)}) = 1

\* a call in progress over three vectors with two workers, chunks of two and
\* of one vector, both workers done
C30_Witness ==
    /\ sc.active
    /\ Len(vectors) = 3
    /\ sc.numWorkers = 2
    /\ Cardinality(sc.launched) = 2
    /\ sc.pending = {}
    /\ Cardinality(Scored(0)) = 2
    /\ Cardinality(Scored(1)) = 1

(***************************************************************************)
(* C31: every HNSW node's Layer lies in 0..16 for every configuration      *)
(* value of mL (including mL >= 1), and the node holds exactly Layer + 1   *)
(* neighbor lists, one per layer 0..Layer.                                 *)
(***************************************************************************)
C31_LayerInRange ==
    \A id \in DOMAIN nodes :
        /\ nodes[id].Layer \in 0..16
        /\ Len(nodes[id].Neighbors) = nodes[id].Layer + 1

\* under mL >= 1, where every value read is below mL, a node at level 16
\* and another node next to it
C31_Witness ==
    /\ config.ML >= 100
    /\ Cardinality(DOMAIN nodes) = 2
    /\ \E id \in DOMAIN nodes :
          nodes[id].Layer = 16 /\ Len(nodes[id].Neighbors) = 17

\* a step of the greedy descent that moves goes to a node strictly closer
\* to the query
MovesCloser ==
    (walk.active /\ walk'.active /\ walk.phase = "greedy" /\ walk'.phase = "greedy"
        /\ walk'.cur # walk.cur)
    => CosineDistance(walk.query, nodes[walk'.cur].Vector)
          < CosineDistance(walk.query, nodes[walk.cur].Vector)

\* within one searchLayer call no id was pushed on the candidate heap, or
\* had its neighbor list gone through, more than once
AtMostOnce ==
    \A id \in Ids : walk.pushes[id] <= 1 /\ walk.expanded[id] <= 1

\* the loop iterations a call can need on an index of n nodes with layers
\* layers: a pass of the descent per node and layer, and per layer searched
\* the call of searchLayer, an iteration per node, and the return from it
StepBound(n, layers) == layers * n + layers * (n + 2)

\* the call in progress is within its bound and is not stuck
WithinSteps ==
    walk.active =>
        /\ walk.steps <= StepBound(Cardinality(DOMAIN nodes), maxLevel + 1)
        /\ CanStep

(***************************************************************************)
(* C32: every HNSW Insert and Search call terminates on any graph the      *)
(* index can hold, including cyclic ones: the greedy descent at a layer    *)
(* moves only to a strictly closer node, and searchLayer marks nodes       *)
(* visited so that each node is pushed to the candidate heap, and          *)
(* expanded, at most once.  Termination is stated on finite runs: a call   *)
(* in progress always has a next step, and never makes more loop           *)
(* iterations than StepBound allows.                                       *)
(***************************************************************************)
C32_CallsTerminate ==
    /\ [](AtMostOnce /\ WithinSteps)
    /\ [][MovesCloser]_vars

\* a Search whose descent has moved off the entry point and whose
\* searchLayer has gone round a cycle of layer 0, expanding both its nodes,
\* and has left its loop
C32_Witness ==
    /\ walk.active
    /\ walk.op = "search"
    /\ walk.cur # entryPoint
    /\ BeamOver
    /\ \E a, b \in DOMAIN nodes :
          /\ a # b
          /\ b \in Range(nodes[a].Neighbors[1])
          /\ a \in Range(nodes[b].Neighbors[1])
          /\ walk.expanded[a] = 1
          /\ walk.expanded[b] = 1

\* the SearchConcurrent call in progress has a step it can take: a worker
\* that can send, a partial result to merge, or the return
SCCanStep ==
    \/ \E i \in sc.pending : CanSend(sc)
    \/ Len(sc.resultsChan) > 0
    \/ RangeEnds(sc)

\* the steps the SearchConcurrent call in progress still has to take before
\* it returns: a send and a merge per worker that has not sent, a merge per
\* partial result in the channel
SCRemaining(call) == 2 * Cardinality(call.pending) + Len(call.resultsChan)

\* caller w is in idx.mu.Lock() of the brute-force index
AwaitsBF(w) == tasks[w].pc = "lock" /\ mu.bf.writer = w /\ ~mu.bf.granted

\* a holder of the brute-force reader lock can take its next step
ReaderCanStep ==
    \/ sc.active /\ SCCanStep
    \/ \E r \in Readers : Reading(r)

(***************************************************************************)
(* C33: SearchConcurrent never deadlocks: the result channel has capacity  *)
(* >= the number of workers started, so no worker blocks on sending, and   *)
(* workers never acquire the index lock themselves, so the call completes  *)
(* and releases the reader lock even while an Insert is waiting for the    *)
(* writer lock; that Insert then eventually proceeds.  Stated on finite    *)
(* runs: the call always has a next step and each step brings it nearer    *)
(* to its return; while an Insert waits no reader joins, a reader that     *)
(* holds the lock can go on, and once none holds it Lock() can return.     *)
(***************************************************************************)
C33_NoDeadlock ==
    /\ [](sc.active =>
            /\ ChanCapacity(sc.numWorkers) >= Cardinality(sc.launched)
            /\ \A i \in sc.pending : CanSend(sc)
            /\ SCCanStep)
    /\ [][(sc.active /\ sc' # sc) =>
            /\ sc'.active => (SCRemaining(sc') < SCRemaining(sc) /\ mu' = mu)
            /\ ~sc'.active => mu'.bf.readers = mu.bf.readers - 1]_vars
    /\ [](\A w \in Writers : AwaitsBF(w) =>
            IF mu.bf.readers = 0 THEN CanLock(mu.bf, w) ELSE ReaderCanStep)
    /\ [][\A w \in Writers : (AwaitsBF(w) /\ tasks'[w].pc = "lock") =>
            mu'.bf.readers <= mu.bf.readers]_vars

\* the worker of a SearchConcurrent call has sent, its partial result is in
\* the channel, not yet merged, and an Insert waits in idx.mu.Lock()
C33_Witness ==
    /\ sc.active
    /\ sc.launched # {}
    /\ sc.pending = {}
    /\ Len(sc.resultsChan) = Cardinality(sc.launched)
    /\ \E w \in Writers : AwaitsBF(w) /\ tasks[w].op = "Insert"

\* the ids reached from the ids of seen along layer-0 neighbor lists
RECURSIVE ReachedFrom(_)
ReachedFrom(seen) ==
    LET more == {n \in DOMAIN nodes :
                    \E s \in seen : s \in DOMAIN nodes /\ n \in Range(nodes[s].Neighbors[1])}
    IN IF more \subseteq seen THEN seen ELSE ReachedFrom(seen \cup more)

(***************************************************************************)
(* C34: after any sequence of HNSW inserts with distinct non-empty ids,    *)
(* every stored node is reachable from the entry point by following        *)
(* layer-0 neighbor lists, so no inserted vector becomes impossible for    *)
(* Search to visit, in particular after other nodes' lists were pruned.    *)
(***************************************************************************)
C34_AllReachable ==
    (DistinctIds /\ entryPoint # "") =>
        DOMAIN nodes \subseteq ReachedFrom({entryPoint})

(***************************************************************************)
(* C35: after any sequence of HNSW inserts with pairwise distinct          *)
(* non-empty ids, no node lists its own id in any of its neighbor lists    *)
(* and no neighbor list contains the same id twice.                        *)
(***************************************************************************)
C35_NoSelfNoRepeat ==
    DistinctIds =>
        \A id \in DOMAIN nodes : \A l \in 1..Len(nodes[id].Neighbors) :
            /\ id \notin Range(nodes[id].Neighbors[l])
            /\ \A n \in Range(nodes[id].Neighbors[l]) :
                  Occurrences(nodes[id].Neighbors[l], n) = 1

\* four distinct ids inserted, a node with two neighbors at layer 0 and a
\* node with a neighbor at layer 1
C35_Witness ==
    /\ DistinctIds
    /\ Len(insertLog) = 4
    /\ \E id \in DOMAIN nodes : Len(nodes[id].Neighbors[1]) = 2
    /\ \E id \in DOMAIN nodes :
          Len(nodes[id].Neighbors) = 2 /\ Len(nodes[id].Neighbors[2]) >= 1

\* the ids the brute-force index holds
BFIds == {vectors[i].ID : i \in 1..Len(vectors)}

\* the ids stored so far are non-empty and pairwise distinct
StoredDistinct ==
    /\ \A i \in 1..Len(vectors) : vectors[i].ID # ""
    /\ \A i, j \in 1..Len(vectors) : i # j => vectors[i].ID # vectors[j].ID

\* no dispatcher insert or insert_batch is between its brute-force insert and
\* its last HNSW insert
NoInsertInProgress == \A c \in Writers : tasks[c].pc # "next"

(***************************************************************************)
(* C36: whenever no dispatcher insert or insert_batch is in progress, and  *)
(* all ids inserted so far are pairwise distinct and non-empty, the        *)
(* brute-force index and the HNSW index hold exactly the same set of ids,  *)
(* so the count reported by count/stats (taken from the brute-force index) *)
(* equals the HNSW node count; while an insert is in progress the HNSW id  *)
(* set is a subset of the brute-force id set.                              *)
(***************************************************************************)
C36_IndexesAgree ==
    /\ [](DOMAIN nodes \subseteq BFIds)
    /\ []((NoInsertInProgress /\ StoredDistinct) =>
            /\ DOMAIN nodes = BFIds
            /\ Cardinality(DOMAIN nodes) = Len(vectors))
    /\ [][(response.op = "none" /\ response'.op = "stats"
              /\ NoInsertInProgress /\ StoredDistinct)
            => response'.count = Cardinality(DOMAIN nodes)]_vars

\* stats answered with 2 once both indexes held two ids, and a later
\* insert has stored its vector in the brute-force index only
C36_Witness ==
    /\ response.op = "stats"
    /\ response.count = 2
    /\ Len(vectors) = 3
    /\ Cardinality(DOMAIN nodes) = 2
    /\ \E c \in Writers : tasks[c].pc = "next"

\* the ids of a result list are pairwise distinct
DistinctResultIds(rs) ==
    \A i, j \in 1..Len(rs) : i # j => rs[i].ID # rs[j].ID

(***************************************************************************)
(* C37: HNSW Search(q, k) with k >= 1 returns at most min(k, ef_search)    *)
(* results, and the ids in one result list are pairwise distinct;          *)
(* searchLayer never keeps more than ef nodes (for ef >= 1): at every      *)
(* point of its loop, in Search and in Insert, its results heap holds at   *)
(* most ef entries, all of different ids.                                  *)
(***************************************************************************)
C37_BoundedDistinctResults ==
    /\ (walk.active /\ walk.phase \in {"beam", "out"} /\ walk.ef >= 1) =>
            /\ Len(walk.st.results) <= walk.ef
            /\ DistinctResultIds(walk.st.results)
    /\ (response.op = "hnsw_search" /\ response.request.TopK >= 1
            /\ config.EfSearch >= 1) =>
            /\ Len(response.results) <= Min2(response.request.TopK, config.EfSearch)
            /\ DistinctResultIds(response.results)

\* a search for two results over three nodes has returned one, the beam
\* being one wide
C37_Witness ==
    /\ response.op = "hnsw_search"
    /\ response.request.TopK = 2
    /\ config.EfSearch = 1
    /\ Cardinality(DOMAIN nodes) = 3
    /\ Len(response.results) = 1

(***************************************************************************)
(* C38: in the frontend at most one /api/query request is outstanding at   *)
(* any time: sendQuery does nothing while isProcessing is true, and        *)
(* isProcessing is set back to false after every request settles, whether  *)
(* it succeeded, returned a non-OK response or threw, so a later query is  *)
(* never blocked forever: isProcessing is true exactly while a request is  *)
(* outstanding, and the step that settles the request clears it.           *)
(***************************************************************************)
C38_OneQueryOutstanding ==
    /\ [](Cardinality(Outstanding(ui)) <= 1)
    /\ [](ui.isProcessing <=> Outstanding(ui) # {})
    /\ [][(ui.isProcessing /\ ui'.calls = ui.calls + 1)
            => /\ ui'.queries[ui'.calls] = "ignored"
               /\ Outstanding(ui') = Outstanding(ui)
               /\ ui'.isProcessing]_vars
    /\ [][\A s \in 1..MaxCalls :
              (s \in Outstanding(ui) /\ s \notin Outstanding(ui'))
                 => (~ui'.isProcessing /\ ui'.queries[s] \in {"answered", "errored"})]_vars

\* a query sent while another was outstanding was ignored, the first one
\* failed, and a third was sent after it and is outstanding
C38_Witness ==
    /\ ui.queries[1] = "errored"
    /\ ui.queries[2] = "ignored"
    /\ ui.queries[3] = "fetch"
    /\ ui.isProcessing

(***************************************************************************)
(* C39: in the frontend pollTaskStatus always terminates after at most 60  *)
(* status requests: it stops at the first response with status             *)
(* 'completed' (adding the document exactly once), stops with an error on  *)
(* status 'failed' or on a failed request, and otherwise reports a timeout *)
(* after the 60th attempt; on every outcome resetUpload is called exactly  *)
(* once (in the 'completed' case by the timer the function leaves behind). *)
(***************************************************************************)
C39_PollTerminates ==
    /\ [](\A s \in 1..MaxUploads :
           /\ ui.up[s].requests <= MaxAttempts
           /\ ui.up[s].attempts <= ui.up[s].requests
           /\ ui.up[s].resets <= 1
           /\ ui.up[s].added = (IF ui.up[s].outcome = "completed" THEN 1 ELSE 0)
           /\ (ui.up[s].phase = "finished" =>
                 ui.up[s].resets = (IF ui.up[s].timer THEN 0 ELSE 1))
           /\ (ui.up[s].timer => ui.up[s].outcome = "completed")
           /\ (ui.up[s].outcome = "timeout" =>
                 (ui.up[s].requests = MaxAttempts /\ ui.up[s].attempts = MaxAttempts))
           /\ (ui.up[s].phase \in {"polling", "status_body", "sleeping"} =>
                 ui.up[s].resets = 0))
    /\ [][\A s \in 1..MaxUploads :
            /\ ui.up[s].phase = "finished"
                => (ui'.up[s].requests = ui.up[s].requests
                    /\ ui'.up[s].added = ui.up[s].added
                    /\ ui'.up[s].outcome = ui.up[s].outcome
                    /\ ui'.up[s].phase = "finished")
            /\ (ui.up[s].phase \in {"polling", "status_body"}
                    /\ ui'.up[s].phase = "finished")
                => ui'.up[s].outcome \in {"completed", "error"}
            /\ (ui.up[s].phase = "sleeping" /\ ui'.up[s].phase = "finished")
                => ui'.up[s].outcome = "timeout"]_vars

\* the sixtieth status request was answered without 'completed' or
\* 'failed', and the timeout has been reported
C39_Witness ==
    \E s \in 1..MaxUploads :
        /\ ui.up[s].phase = "finished"
        /\ ui.up[s].outcome = "timeout"
        /\ ui.up[s].requests = MaxAttempts
        /\ ui.up[s].resets = 1
        /\ ui.up[s].added = 0

====
